---- MODULE Spec2Model ----
(***************************************************************************)
(* Luna: lowering compiler (bytecode.rs), stack-machine interpreter        *)
(* (runtime.rs) and JIT profiling data (jit.rs).                           *)
(*                                                                         *)
(* A Value is a record [t, v]: t is the variant's type_name, v its payload.*)
(* A Number's payload is a normalised fraction <<n, d>> (d > 0), which     *)
(* stands for the f64 of the code on the small values used here.           *)
(* Program counters and local slots are 0-based as in the code; TLA+       *)
(* sequences are 1-based, so instruction pc is instructions[pc + 1].       *)
(***************************************************************************)
EXTENDS Integers, Sequences, FiniteSets, TLC

VARIABLES
    globals,        \* LuaJitRuntime.globals: name -> Value
    stack,          \* LuaJitRuntime.stack: the operand stack
    call_stack,     \* LuaJitRuntime.call_stack: sequence of CallFrame
    jit_compiler,   \* LuaJitRuntime.jit_compiler
    mode,           \* "idle": no execute call in progress; "run": inside the dispatch loop
    result,         \* what the last execute call returned
    printed,        \* lines written to standard output by the current execute call
    stats,          \* the status lines of the last print_stats
    source,         \* index in Sources of the source text of the current/last execute call
    globals0,       \* the globals when the current/last execute call started
    calls,          \* number of execute calls made on this runtime
    hash_order,     \* key set -> iteration order of the runtime's HashMaps with these keys
    input_program,  \* the Program handed to Compiler::compile
    compile_result, \* what Compiler::compile returned for it, once it has returned
    chunk_built,    \* a Chunk under construction through emit, add_constant, patch_jump
    chunk_call,     \* the last call on chunk_built: [op, arg, panicked]
    jitc,           \* a JitCompiler driven through its public operations
    mappings,       \* the executable regions mapped in the process: address -> region
    jit_result,     \* what the last compile_hot_spot returned: "", "Ok" or the Err text
    build_target,   \* the target of the build (the cfg attributes of jit.rs)
    alloc_call      \* the compile_hot_spot call in progress: [phase, addr, chunk, start_pc]

jit_vars == <<jitc, mappings, jit_result, build_target, alloc_call>>

compiler_vars == <<input_program, compile_result>>

chunk_vars == <<chunk_built, chunk_call>>

vars == <<globals, stack, call_stack, jit_compiler, mode, result, printed, stats,
          source, globals0, calls, hash_order, input_program, compile_result,
          chunk_built, chunk_call,
          jitc, mappings, jit_result, build_target, alloc_call>>

(***************************************************************************)
(* value.rs                                                                *)
(***************************************************************************)
Abs(i) == IF i < 0 THEN -i ELSE i

RECURSIVE Gcd(_, _)
Gcd(a, b) == IF b = 0 THEN a ELSE Gcd(b, a % b)

\* The fraction n/d in lowest terms with a positive denominator (d # 0).
Frac(n, d) ==
    LET g == Gcd(Abs(n), Abs(d))
        s == IF d < 0 THEN -1 ELSE 1
    IN  IF g = 0 THEN <<0, 0>> ELSE <<(s * n) \div g, (s * d) \div g>>

Nil == [t |-> "nil", v |-> 0]
Boolean(b) == [t |-> "boolean", v |-> b]
Number(n) == [t |-> "number", v |-> Frac(n, 1)]
NumberQ(q) == [t |-> "number", v |-> q]
String(s) == [t |-> "string", v |-> s]
Table(f) == [t |-> "table", v |-> f]
Function(id) == [t |-> "function", v |-> id]

\* #[derive(PartialEq)] on Value: variants first, then payloads (tables entry-wise).
RECURSIVE ValueEq(_, _)
ValueEq(a, b) ==
    /\ a.t = b.t
    /\ IF a.t = "table"
       THEN /\ DOMAIN a.v = DOMAIN b.v
            /\ \A k \in DOMAIN a.v : ValueEq(a.v[k], b.v[k])
       ELSE a.v = b.v

\* A truthiness for which Number 0 and the empty string are falsy too.
is_truthy_zero_falsy(val) ==
    CASE val.t = "nil" -> FALSE
      [] val.t = "boolean" -> val.v
      [] val.t = "number" -> val.v[1] # 0
      [] val.t = "string" -> val.v # ""
      [] OTHER -> TRUE

\* Value::is_truthy
is_truthy(val) ==
    CASE val.t = "nil" -> FALSE
      [] val.t = "boolean" -> val.v
      [] OTHER -> TRUE

\* str::parse::<f64> on the string literals of Sources: decimal integers parse,
\* every other text of Sources does not.
Digits == <<"0", "1", "2", "3", "4", "5", "6", "7", "8", "9">>

ParseNumber(s) ==
    IF \E i \in 1..Len(Digits) : Digits[i] = s
    THEN <<TRUE, Frac((CHOOSE i \in 1..Len(Digits) : Digits[i] = s) - 1, 1)>>
    ELSE <<FALSE, <<0, 1>>>>

\* Option<f64> as <<is_some, fraction>>.
to_number(val) ==
    CASE val.t = "number" -> <<TRUE, val.v>>
      [] val.t = "string" -> ParseNumber(val.v)
      [] OTHER -> <<FALSE, <<0, 1>>>>

RECURSIVE NatToString(_)
NatToString(n) ==
    IF n < 10 THEN Digits[n + 1] ELSE NatToString(n \div 10) \o Digits[(n % 10) + 1]

IntToString(i) == IF i < 0 THEN "-" \o NatToString(-i) ELSE NatToString(i)

\* impl fmt::Display for Value. A non-integral number is written as its fraction
\* here (the code writes the f64's decimal expansion).
to_string(val) ==
    CASE val.t = "nil" -> "nil"
      [] val.t = "boolean" -> IF val.v THEN "true" ELSE "false"
      [] val.t = "number" ->
            IF val.v[2] = 1 THEN IntToString(val.v[1])
            ELSE IntToString(val.v[1]) \o "/" \o IntToString(val.v[2])
      [] val.t = "string" -> val.v
      [] val.t = "table" -> "table"
      [] OTHER -> "function:" \o IntToString(val.v)

(***************************************************************************)
(* bytecode.rs: Instruction, Chunk                                         *)
(*                                                                         *)
(* An Instruction is [op, x]: op is the variant's name and x its operand   *)
(* (a Value for LoadConst, a name for LoadGlobal/StoreGlobal, a number for *)
(* the slot, target and arity operands, 0 for the variants without one).   *)
(***************************************************************************)
Instr(op, x) == [op |-> op, x |-> x]

\* The unconditional jump alone: a dispatch loop that steps past a conditional
\* jump.
IsJumpUnconditional(i) == i.op = "Jump"

IsJump(i) == i.op \in {"Jump", "JumpIfFalse", "JumpIfTrue"}

\* Chunk::new
NewChunk == [instructions |-> <<>>, constants |-> <<>>, line_numbers |-> <<>>]

\* Chunk::emit
emit(chunk, instruction, line) ==
    [chunk EXCEPT !.instructions = Append(@, instruction),
                  !.line_numbers = Append(@, line)]

\* Chunk::add_constant: the chunk after the push, and the index returned.
add_constant(chunk, value) ==
    <<[chunk EXCEPT !.constants = Append(@, value)], Len(chunk.constants)>>

\* A patch_jump that panics only on an index past the end.
patch_jump_panics_past_end(chunk, offset) == offset >= Len(chunk.instructions)

\* Chunk::patch_jump panics on an instruction that is not a jump.
patch_jump_panics(chunk, offset) ==
    \/ offset >= Len(chunk.instructions)
    \/ ~IsJump(chunk.instructions[offset + 1])

\* A patch that writes the jump's own index as its target.
patch_jump_to_self(chunk, offset) ==
    [chunk EXCEPT !.instructions[offset + 1].x = offset]

\* Chunk::patch_jump, when it does not panic.
patch_jump(chunk, offset) ==
    LET jump_target == Len(chunk.instructions)
    IN  [chunk EXCEPT !.instructions[offset + 1].x = jump_target]

(***************************************************************************)
(* bytecode.rs: Compiler. The compiler state is [chunk, locals, err]; err  *)
(* is "" until a compile_* returns Err(err), which `?` then propagates.    *)
(*                                                                         *)
(* ast.rs: an Expr or Stmt is a record whose field k names the variant.    *)
(***************************************************************************)
NewCompiler == [chunk |-> NewChunk, locals |-> <<>>, err |-> ""]

CEmit(c, instruction) == [c EXCEPT !.chunk = emit(c.chunk, instruction, 0)]

\* Compiler::emit_jump: the state after the emit, and the index of the jump.
emit_jump(c, instruction) ==
    <<CEmit(c, instruction), Len(c.chunk.instructions)>>

\* Compiler::patch_jump
CPatch(c, offset) == [c EXCEPT !.chunk = patch_jump(c.chunk, offset)]

\* Compiler::add_local
add_local(c, name) == [c EXCEPT !.locals = Append(@, name)]

\* A resolve_local that scans from the first declaration forward.
resolve_local_oldest(c, name) ==
    LET hits == {i \in 1..Len(c.locals) : c.locals[i] = name}
    IN  IF hits = {} THEN <<FALSE, 0>>
        ELSE <<TRUE, (CHOOSE i \in hits : \A j \in hits : i <= j) - 1>>

\* Compiler::resolve_local: Option<usize> as <<is_some, slot>>; the scan runs from
\* the last declaration backward.
resolve_local(c, name) ==
    LET hits == {i \in 1..Len(c.locals) : c.locals[i] = name}
    IN  IF hits = {} THEN <<FALSE, 0>>
        ELSE <<TRUE, (CHOOSE i \in hits : \A j \in hits : j <= i) - 1>>

BinaryInstruction(operator) ==
    CASE operator = "Add" -> Instr("Add", 0)
      [] operator = "Sub" -> Instr("Sub", 0)
      [] operator = "Mul" -> Instr("Mul", 0)
      [] operator = "Div" -> Instr("Div", 0)
      [] operator = "Mod" -> Instr("Mod", 0)
      [] operator = "Pow" -> Instr("Pow", 0)
      [] operator = "Equal" -> Instr("Equal", 0)
      [] operator = "NotEqual" -> Instr("NotEqual", 0)
      [] operator = "Less" -> Instr("Less", 0)
      [] operator = "LessEqual" -> Instr("LessEqual", 0)
      [] operator = "Greater" -> Instr("Greater", 0)
      [] operator = "GreaterEqual" -> Instr("GreaterEqual", 0)
      [] operator = "And" -> Instr("And", 0)
      [] operator = "Or" -> Instr("Or", 0)
      [] operator = "Concat" -> Instr("Concat", 0)

UnaryInstruction(operator) ==
    CASE operator = "Minus" -> Instr("Neg", 0)
      [] operator = "Not" -> Instr("Not", 0)

\* Compiler::add_local, then the StoreLocal of the slot `self.locals.len() - 1`.
StoreNewLocal(c, name) ==
    CEmit(add_local(c, name), Instr("StoreLocal", Len(c.locals)))

\* Err(msg) from a compile_* function. Every compile_* below returns its argument
\* unchanged once err is set, which is how `?` hands the first Err to the caller.
CompileErr(c, msg) == IF c.err # "" THEN c ELSE [c EXCEPT !.err = msg]

RECURSIVE compile_expression(_, _)
RECURSIVE compile_expressions(_, _)

\* `for arg in args { self.compile_expression(arg)?; }`
compile_expressions(c, exprs) ==
    IF exprs = <<>> \/ c.err # "" THEN c
    ELSE compile_expressions(compile_expression(c, Head(exprs)), Tail(exprs))

\* The emit that follows the `?`s of an arm: skipped when one of them returned Err.
ThenEmit(c, instruction) == IF c.err # "" THEN c ELSE CEmit(c, instruction)

\* A Binary arm that leaves out the right operand of `and` and `or` when the left
\* operand is a literal that decides the result.
compile_binary_short_circuit(c, expr) ==
    IF /\ expr.operator \in {"And", "Or"}
       /\ expr.left.k = "Literal"
       /\ is_truthy(expr.left.value) = (expr.operator = "Or")
    THEN CEmit(c, Instr("LoadConst", Boolean(expr.operator = "Or")))
    ELSE ThenEmit(compile_expression(compile_expression(c, expr.left), expr.right),
                  BinaryInstruction(expr.operator))

\* Expr::Binary: left, right, then the instruction of the operator.
compile_binary(c, expr) ==
    ThenEmit(compile_expression(compile_expression(c, expr.left), expr.right),
             BinaryInstruction(expr.operator))

\* A Call arm that compiles the callee before the arguments.
compile_call_callee_first(c, expr) ==
    ThenEmit(compile_expressions(compile_expression(c, expr.callee), expr.args),
             Instr("Call", Len(expr.args)))

\* Expr::Call: the arguments, then the callee, then Call(args.len()).
compile_call(c, expr) ==
    ThenEmit(compile_expression(compile_expressions(c, expr.args), expr.callee),
             Instr("Call", Len(expr.args)))

compile_expression(c, expr) ==
    IF c.err # "" THEN c
    ELSE CASE expr.k = "Literal" -> CEmit(c, Instr("LoadConst", expr.value))
           [] expr.k = "Identifier" ->
                IF resolve_local(c, expr.name)[1]
                THEN CEmit(c, Instr("LoadLocal", resolve_local(c, expr.name)[2]))
                ELSE CEmit(c, Instr("LoadGlobal", expr.name))
           [] expr.k = "Binary" -> compile_binary(c, expr)
           [] expr.k = "Unary" ->
                ThenEmit(compile_expression(c, expr.operand),
                         UnaryInstruction(expr.operator))
           [] expr.k = "Call" -> compile_call(c, expr)
           [] expr.k = "FieldAccess" ->
                ThenEmit(ThenEmit(compile_expression(c, expr.object),
                                  Instr("LoadConst", String(expr.field))),
                         Instr("GetIndex", 0))
           [] OTHER -> CompileErr(c, "Expression not implemented")

\* `for _ in values.len()..names.len() { emit(LoadConst(Nil)) }`
RECURSIVE PadNils(_, _)
PadNils(c, n) == IF n <= 0 THEN c ELSE PadNils(CEmit(c, Instr("LoadConst", Nil)), n - 1)

\* `for name in names.iter().rev() { add_local(name); emit(StoreLocal(locals.len() - 1)) }`
RECURSIVE StoreLocalsRev(_, _)
StoreLocalsRev(c, names) ==
    IF names = <<>> THEN c
    ELSE StoreLocalsRev(StoreNewLocal(c, names[Len(names)]),
                        SubSeq(names, 1, Len(names) - 1))

\* Stmt::LocalAssignment after the values are compiled.
LocalAssignmentStores(c, stmt) ==
    IF c.err # "" THEN c
    ELSE StoreLocalsRev(PadNils(c, Len(stmt.names) - Len(stmt.values)), stmt.names)

\* An assignment that duplicates its value before the store.
AssignmentStoreDup(c, target) ==
    IF c.err # "" THEN c
    ELSE IF resolve_local(c, target)[1]
    THEN CEmit(CEmit(c, Instr("Dup", 0)), Instr("StoreLocal", resolve_local(c, target)[2]))
    ELSE CEmit(CEmit(c, Instr("Dup", 0)), Instr("StoreGlobal", target))

\* Stmt::Assignment after the value is compiled.
AssignmentStore(c, target) ==
    IF c.err # "" THEN c
    ELSE IF resolve_local(c, target)[1]
    THEN CEmit(c, Instr("StoreLocal", resolve_local(c, target)[2]))
    ELSE CEmit(c, Instr("StoreGlobal", target))

\* patch_jump(offset) after the `?`s before it.
ThenPatch(c, offset) == IF c.err # "" THEN c ELSE CPatch(c, offset)

RECURSIVE compile_statement(_, _)
RECURSIVE compile_statements(_, _)

\* `for stmt in stmts { self.compile_statement(stmt)?; }`
compile_statements(c, stmts) ==
    IF stmts = <<>> \/ c.err # "" THEN c
    ELSE compile_statements(compile_statement(c, Head(stmts)), Tail(stmts))

\* Stmt::If from the else branch on: c3 is the state after patch_jump(else_jump).
IfElseBranch(c3, stmt, end_jump) ==
    ThenPatch(IF stmt.has_else THEN compile_statements(c3, stmt.else_branch) ELSE c3,
              end_jump)

\* Stmt::If after the then branch (state c2): end_jump = emit_jump(Jump(0)), then
\* patch_jump(else_jump).
IfAfterThen(c2, stmt, else_jump) ==
    IF c2.err # "" THEN c2
    ELSE IfElseBranch(CPatch(emit_jump(c2, Instr("Jump", 0))[1], else_jump), stmt,
                      emit_jump(c2, Instr("Jump", 0))[2])

\* Stmt::If after the condition (state c1): else_jump = emit_jump(JumpIfFalse(0)).
IfAfterCondition(c1, stmt) ==
    IF c1.err # "" THEN c1
    ELSE IfAfterThen(compile_statements(emit_jump(c1, Instr("JumpIfFalse", 0))[1],
                                        stmt.then_branch),
                     stmt, emit_jump(c1, Instr("JumpIfFalse", 0))[2])

\* Stmt::While after the body (state c2): the back jump, then patch_jump(exit_jump).
WhileAfterBody(c2, loop_start, exit_jump) ==
    IF c2.err # "" THEN c2
    ELSE CPatch(CEmit(c2, Instr("Jump", loop_start)), exit_jump)

\* Stmt::While after the condition (state c1).
WhileAfterCondition(c1, stmt, loop_start) ==
    IF c1.err # "" THEN c1
    ELSE WhileAfterBody(compile_statements(emit_jump(c1, Instr("JumpIfFalse", 0))[1],
                                           stmt.body),
                        loop_start, emit_jump(c1, Instr("JumpIfFalse", 0))[2])

\* Stmt::For after the body (state c11): the increment, the back jump, the patch.
ForAfterBody(c11, var_index, step_index, loop_start, exit_jump) ==
    IF c11.err # "" THEN c11
    ELSE CPatch(CEmit(CEmit(CEmit(CEmit(CEmit(c11,
                    Instr("LoadLocal", var_index)),
                    Instr("LoadLocal", step_index)),
                    Instr("Add", 0)),
                    Instr("StoreLocal", var_index)),
                    Instr("Jump", loop_start)),
                exit_jump)

\* Stmt::For after the comparison is emitted (state c10): the exit jump and the body.
ForFromExitJump(c10, stmt, var_index, step_index, loop_start) ==
    ForAfterBody(compile_statements(emit_jump(c10, Instr("JumpIfFalse", 0))[1], stmt.body),
                 var_index, step_index, loop_start,
                 emit_jump(c10, Instr("JumpIfFalse", 0))[2])

\* Stmt::For from `let loop_start = self.chunk.instructions.len()` on (state c9).
ForFromLoopStart(c9, stmt, var_index, end_index, step_index) ==
    ForFromExitJump(CEmit(CEmit(CEmit(c9, Instr("LoadLocal", var_index)),
                                Instr("LoadLocal", end_index)),
                          Instr("LessEqual", 0)),
                    stmt, var_index, step_index, Len(c9.chunk.instructions))

\* Stmt::For after the step value is compiled (state c7).
ForAfterStep(c7, stmt, var_index, end_index) ==
    IF c7.err # "" THEN c7
    ELSE ForFromLoopStart(StoreNewLocal(c7, stmt.var \o "_step"), stmt,
                          var_index, end_index, Len(c7.locals))

\* Stmt::For after the end value is compiled (state c4).
ForAfterEnd(c4, stmt, var_index) ==
    IF c4.err # "" THEN c4
    ELSE ForAfterStep(IF stmt.has_step
                      THEN compile_expression(StoreNewLocal(c4, stmt.var \o "_end"),
                                              stmt.step)
                      ELSE CEmit(StoreNewLocal(c4, stmt.var \o "_end"),
                                 Instr("LoadConst", Number(1))),
                      stmt, var_index, Len(c4.locals))

\* Stmt::For after the start value is compiled (state c1).
ForAfterStart(c1, stmt) ==
    IF c1.err # "" THEN c1
    ELSE ForAfterEnd(compile_expression(StoreNewLocal(c1, stmt.var), stmt.end),
                     stmt, Len(c1.locals))

compile_statement(c, stmt) ==
    IF c.err # "" THEN c
    ELSE CASE stmt.k = "Expression" ->
                ThenEmit(compile_expression(c, stmt.expr), Instr("Pop", 0))
           [] stmt.k = "Assignment" ->
                AssignmentStore(compile_expression(c, stmt.value), stmt.target)
           [] stmt.k = "LocalAssignment" ->
                LocalAssignmentStores(compile_expressions(c, stmt.values), stmt)
           [] stmt.k = "If" ->
                IfAfterCondition(compile_expression(c, stmt.condition), stmt)
           [] stmt.k = "While" ->
                WhileAfterCondition(compile_expression(c, stmt.condition), stmt,
                                    Len(c.chunk.instructions))
           [] stmt.k = "Return" ->
                ThenEmit(IF stmt.has_value THEN compile_expression(c, stmt.expr)
                         ELSE CEmit(c, Instr("LoadConst", Nil)),
                         Instr("Return", 0))
           [] stmt.k = "For" ->
                ForAfterStart(compile_expression(c, stmt.start), stmt)
           [] OTHER -> CompileErr(c, "Statement not implemented")

\* The two emits that end Compiler::compile.
ImplicitReturn(c) == CEmit(CEmit(c, Instr("LoadConst", Nil)), Instr("Return", 0))

\* A compile that returns the chunk of the statements before the unsupported one.
compile_skipping_rest(program) ==
    [chunk |-> ImplicitReturn([compile_statements(NewCompiler, program)
                                    EXCEPT !.err = ""]).chunk,
     err |-> ""]

\* Compiler::compile on a fresh Compiler: [chunk, err].
compile(program) ==
    IF compile_statements(NewCompiler, program).err # ""
    THEN [chunk |-> NewChunk, err |-> compile_statements(NewCompiler, program).err]
    ELSE [chunk |-> ImplicitReturn(compile_statements(NewCompiler, program)).chunk,
          err |-> ""]

(***************************************************************************)
(* f64 arithmetic on fractions. A zero denominator stands for the f64s     *)
(* that are not finite: <<1, 0>> and <<-1, 0>> the infinities, <<0, 0>> NaN.*)
(***************************************************************************)
Sign(i) == IF i < 0 THEN -1 ELSE IF i > 0 THEN 1 ELSE 0

IsFinite(q) == q[2] # 0

\* `b_num == 0.0`
IsZero(q) == q[1] = 0 /\ q[2] # 0

FAdd(a, b) == Frac(a[1] * b[2] + b[1] * a[2], a[2] * b[2])
FSub(a, b) == Frac(a[1] * b[2] - b[1] * a[2], a[2] * b[2])
FMul(a, b) == Frac(a[1] * b[1], a[2] * b[2])
FNeg(a) == <<-a[1], a[2]>>

\* a / b in f64: x/0 is an infinity (NaN for 0/0), never a trap.
FDiv(a, b) == IF b[1] = 0 THEN <<Sign(a[1]), 0>> ELSE Frac(a[1] * b[2], a[2] * b[1])

\* a % b in f64 (fmod): a - b * trunc(a / b), the sign of a; NaN for b = 0.
FMod(a, b) ==
    IF b[1] = 0 THEN <<0, 0>>
    ELSE LET q == FDiv(a, b)
             t == Sign(q[1]) * (Abs(q[1]) \div q[2])
         IN  FSub(a, FMul(b, <<t, 1>>))

\* f64::powf for the exponents that are integers >= 0.
RECURSIVE FPow(_, _)
FPow(a, b) ==
    CASE b[2] = 1 /\ b[1] = 0 -> <<1, 1>>
      [] b[2] = 1 /\ b[1] > 0 -> FMul(a, FPow(a, <<b[1] - 1, 1>>))

FLess(a, b) == a[1] * b[2] < b[1] * a[2]
FLessEqual(a, b) == a[1] * b[2] <= b[1] * a[2]

(***************************************************************************)
(* vm.rs: StandardLibrary (the registry), stdlib.rs: the builtins          *)
(***************************************************************************)
\* function_names after StandardLibrary::new: the id of a function is its index.
function_names ==
    <<"print", "type", "tostring", "tonumber", "pairs", "ipairs", "next", "rawget",
      "rawset", "getmetatable", "setmetatable", "pcall", "xpcall", "error", "assert",
      "string.len", "string.sub", "string.upper", "string.lower", "string.char",
      "string.byte", "string.find", "string.gsub",
      "math.abs", "math.ceil", "math.floor", "math.max", "math.min", "math.sqrt",
      "math.sin", "math.cos", "math.tan", "math.pi", "math.random",
      "table.insert", "table.remove", "table.concat", "table.sort",
      "io.write", "io.read">>

\* StandardLibrary::get_function: Option<(id, fn)> as <<is_some, id>>.
get_function(name) ==
    IF \E i \in 1..Len(function_names) : function_names[i] = name
    THEN <<TRUE, (CHOOSE i \in 1..Len(function_names) : function_names[i] = name) - 1>>
    ELSE <<FALSE, 0>>

\* StandardLibrary::get_function_by_id: is the id registered.
get_function_by_id(id) == id < Len(function_names)

\* LuaError's Display for ArgumentError and TypeError.
argument_error(expected, found, function) ==
    "Wrong number of arguments to " \o function \o ": expected "
        \o IntToString(expected) \o ", got " \o IntToString(found)

type_error(expected, found, operation) ==
    "Type error in " \o operation \o ": expected " \o expected \o ", found " \o found

\* The builtins the programs of Sources can reach: LuaResult<Value> as [err, v].
builtin_type(args) ==
    IF Len(args) # 1 THEN [err |-> argument_error(1, Len(args), "type"), v |-> Nil]
    ELSE [err |-> "", v |-> String(args[1].t)]

builtin_tostring(args) ==
    IF Len(args) # 1 THEN [err |-> argument_error(1, Len(args), "tostring"), v |-> Nil]
    ELSE [err |-> "", v |-> String(to_string(args[1]))]

math_abs(args) ==
    IF Len(args) # 1 THEN [err |-> argument_error(1, Len(args), "math.abs"), v |-> Nil]
    ELSE LET n == to_number(args[1])
         IN  IF n[1] THEN [err |-> "", v |-> NumberQ(<<Abs(n[2][1]), n[2][2]>>)]
             ELSE [err |-> type_error("number", args[1].t, "math.abs"), v |-> Nil]

\* Calling the builtin registered under id.
builtin_func(id, args) ==
    CASE function_names[id + 1] = "type" -> builtin_type(args)
      [] function_names[id + 1] = "tostring" -> builtin_tostring(args)
      [] function_names[id + 1] = "math.abs" -> math_abs(args)

(***************************************************************************)
(* runtime.rs: LuaJitRuntime                                               *)
(***************************************************************************)
\* HashMap::insert
Insert(map, key, value) ==
    [k \in DOMAIN map \cup {key} |-> IF k = key THEN value ELSE map[k]]

\* The table add_builtins builds from the registry for one namespace.
BuiltinTable(prefix, fields) ==
    LET found == {f \in fields : get_function(prefix \o "." \o f)[1]}
    IN  Table([f \in found |-> Function(get_function(prefix \o "." \o f)[2])])

\* LuaJitRuntime::add_builtins on the empty globals.
add_builtins ==
    Insert(Insert(Insert(<<>>, "print", Function(0)),
                  "math", BuiltinTable("math", {"abs", "sqrt", "max", "min"})),
           "string", BuiltinTable("string", {"len", "sub", "upper", "lower", "char", "byte"}))

Push(st, val) == Append(st, val)
Top(st) == st[Len(st)]
Pop1(st) == SubSeq(st, 1, Len(st) - 1)
Pop2(st) == SubSeq(st, 1, Len(st) - 2)

\* The outcome of execute_instruction: the machine [globals, stack, call_stack,
\* printed] after it, and err ("" for Ok(())).
Ok(m) == [m |-> m, err |-> ""]
Err(m, msg) == [m |-> m, err |-> msg]

\* The orders a HashMap with the keys K can iterate in: any. Its RandomState is
\* seeded when the map is built, so the order is fixed per map (and kept by its
\* clones) and differs from map to map and from runtime to runtime.
Orders(K) ==
    {s \in [1..Cardinality(K) -> K] : \A i, j \in 1..Cardinality(K) : i # j => s[i] # s[j]}

\* The iteration order of the runtime's map with the keys K: the one recorded in
\* orders, one of Orders(K) when none is recorded.
IterationOrder(K, orders) ==
    IF K \in DOMAIN orders THEN orders[K] ELSE CHOOSE s \in Orders(K) : TRUE

\* {:?} of a Value (#[derive(Debug)]); a Table lists its entries in the iteration
\* order of its HashMap.
RECURSIVE DebugFmt(_, _)
RECURSIVE DebugEntries(_, _, _)
DebugEntries(entries, order, orders) ==
    IF order = <<>> THEN ""
    ELSE "\"" \o Head(order) \o "\": " \o DebugFmt(entries[Head(order)], orders)
            \o (IF Len(order) = 1 THEN "" ELSE ", ")
            \o DebugEntries(entries, Tail(order), orders)

DebugFmt(val, orders) ==
    CASE val.t = "nil" -> "Nil"
      [] val.t = "boolean" -> "Boolean(" \o to_string(val) \o ")"
      [] val.t = "number" -> "Number(" \o to_string(val) \o ".0)"
      [] val.t = "string" -> "String(\"" \o val.v \o "\")"
      [] val.t = "function" -> "Function(" \o IntToString(val.v) \o ")"
      [] val.t = "table" ->
            "Table({" \o DebugEntries(val.v, IterationOrder(DOMAIN val.v, orders), orders)
                \o "})"

\* Add, Sub, Mul, Pow: both operands popped, then to_number on each.
ArithResult(op, a_num, b_num) ==
    CASE op = "Add" -> FAdd(a_num, b_num)
      [] op = "Sub" -> FSub(a_num, b_num)
      [] op = "Mul" -> FMul(a_num, b_num)
      [] op = "Pow" -> FPow(a_num, b_num)

Arith(m, op, what, verb) ==
    IF Len(m.stack) < 2 THEN Err(m, "Not enough operands for " \o what)
    ELSE LET b == m.stack[Len(m.stack)]
             a == m.stack[Len(m.stack) - 1]
             an == to_number(a)
             bn == to_number(b)
             m1 == [m EXCEPT !.stack = Pop2(@)]
         IN  IF an[1] /\ bn[1]
             THEN Ok([m1 EXCEPT !.stack = Push(@, NumberQ(ArithResult(op, an[2], bn[2])))])
             ELSE Err(m1, "Cannot " \o verb)

\* DivArm without its `if b_num == 0.0` test.
DivNoZeroCheck(a_num, b_num) == [err |-> "", v |-> NumberQ(FDiv(a_num, b_num))]

\* The inner match arm of Div: Err for a zero divisor, else the quotient.
DivArm(a_num, b_num) ==
    IF IsZero(b_num) THEN [err |-> "Division by zero", v |-> Nil]
    ELSE [err |-> "", v |-> NumberQ(FDiv(a_num, b_num))]

\* The inner match arm of Mod.
ModArm(a_num, b_num) ==
    IF IsZero(b_num) THEN [err |-> "Modulo by zero", v |-> Nil]
    ELSE [err |-> "", v |-> NumberQ(FMod(a_num, b_num))]

CheckedArm(op, a_num, b_num) ==
    IF op = "Div" THEN DivArm(a_num, b_num) ELSE ModArm(a_num, b_num)

\* Div, Mod
ArithChecked(m, op, what, verb) ==
    IF Len(m.stack) < 2 THEN Err(m, "Not enough operands for " \o what)
    ELSE LET b == m.stack[Len(m.stack)]
             a == m.stack[Len(m.stack) - 1]
             an == to_number(a)
             bn == to_number(b)
             m1 == [m EXCEPT !.stack = Pop2(@)]
         IN  IF an[1] /\ bn[1]
             THEN LET r == CheckedArm(op, an[2], bn[2])
                  IN  IF r.err # "" THEN Err(m1, r.err)
                      ELSE Ok([m1 EXCEPT !.stack = Push(@, r.v)])
             ELSE Err(m1, "Cannot " \o verb)

FGreater(a, b) == FLess(b, a)
FGreaterEqual(a, b) == FLessEqual(b, a)
EqualOp(a, b) == Boolean(ValueEq(a, b))
NotEqualOp(a, b) == Boolean(~ValueEq(a, b))
AndOp(a, b) == Boolean(is_truthy(a) /\ is_truthy(b))
OrOp(a, b) == Boolean(is_truthy(a) \/ is_truthy(b))
ConcatOp(a, b) == String(to_string(a) \o to_string(b))

CompareResult(op, a_num, b_num) ==
    CASE op = "Less" -> FLess(a_num, b_num)
      [] op = "LessEqual" -> FLessEqual(a_num, b_num)
      [] op = "Greater" -> FGreater(a_num, b_num)
      [] op = "GreaterEqual" -> FGreaterEqual(a_num, b_num)

BinaryResult(op, a, b) ==
    CASE op = "Equal" -> EqualOp(a, b)
      [] op = "NotEqual" -> NotEqualOp(a, b)
      [] op = "And" -> AndOp(a, b)
      [] op = "Or" -> OrOp(a, b)
      [] op = "Concat" -> ConcatOp(a, b)

\* Less, LessEqual, Greater, GreaterEqual
Compare(m, op, what) ==
    IF Len(m.stack) < 2 THEN Err(m, "Not enough operands for " \o what)
    ELSE LET b == m.stack[Len(m.stack)]
             a == m.stack[Len(m.stack) - 1]
             an == to_number(a)
             bn == to_number(b)
             m1 == [m EXCEPT !.stack = Pop2(@)]
         IN  IF an[1] /\ bn[1]
             THEN Ok([m1 EXCEPT !.stack = Push(@, Boolean(CompareResult(op, an[2], bn[2])))])
             ELSE Err(m1, "Cannot compare non-numeric values")

\* Equal, NotEqual, And, Or, Concat: any two values.
Binary(m, op, what) ==
    IF Len(m.stack) < 2 THEN Err(m, "Not enough operands for " \o what)
    ELSE LET b == m.stack[Len(m.stack)]
             a == m.stack[Len(m.stack) - 1]
         IN  Ok([m EXCEPT !.stack = Push(Pop2(@), BinaryResult(op, a, b))])


\* print!("{}", arg) over the arguments, tab-separated, then println!().
RECURSIVE JoinTabs(_)
JoinTabs(args) ==
    IF args = <<>> THEN ""
    ELSE IF Len(args) = 1 THEN to_string(args[1])
    ELSE to_string(args[1]) \o "\t" \o JoinTabs(Tail(args))

\* A Call that pushes Nil for a callee that is not a function.
CallAnything(m, arg_count) ==
    Ok([m EXCEPT !.stack = Push(SubSeq(@, 1, Len(@) - arg_count - 1), Nil)])

\* Instruction::Call
ExecCall(m, arg_count) ==
    IF Len(m.stack) < arg_count + 1 THEN Err(m, "Not enough arguments for call")
    ELSE LET func == Top(m.stack)
             n == Len(m.stack)
             args == SubSeq(m.stack, n - arg_count, n - 1)
             m1 == [m EXCEPT !.stack = SubSeq(@, 1, n - arg_count - 1)]
         IN  IF func.t = "function"
             THEN IF func.v = 0
                  THEN Ok([m1 EXCEPT !.printed = Append(@, JoinTabs(args)),
                                     !.stack = Push(@, Nil)])
                  ELSE IF get_function_by_id(func.v)
                  THEN LET r == builtin_func(func.v, args)
                       IN  IF r.err = "" THEN Ok([m1 EXCEPT !.stack = Push(@, r.v)])
                           ELSE Err(m1, "Function error: " \o r.err)
                  ELSE Err(m1, "Unknown function ID: " \o IntToString(func.v))
             ELSE Err(m1, "Cannot call non-function value: " \o DebugFmt(func, m.hash_order))

\* A GetIndex that indexes tables only and fails on any other first operand.
IndexTablesOnly(m) ==
    IF Len(m.stack) < 2 THEN Err(m, "Not enough operands for index access")
    ELSE IF m.stack[Len(m.stack) - 1].t # "table"
    THEN Err([m EXCEPT !.stack = Pop2(@)], "attempt to index a non-table value")
    ELSE Ok([m EXCEPT !.stack =
                Push(Pop2(@),
                     IF to_string(m.stack[Len(m.stack)]) \in DOMAIN m.stack[Len(m.stack) - 1].v
                     THEN m.stack[Len(m.stack) - 1].v[to_string(m.stack[Len(m.stack)])]
                     ELSE Nil)])

\* Instruction::GetIndex
ExecGetIndex(m) ==
    IF Len(m.stack) < 2 THEN Err(m, "Not enough operands for index access")
    ELSE LET key == m.stack[Len(m.stack)]
             table == m.stack[Len(m.stack) - 1]
             m1 == [m EXCEPT !.stack = Pop2(@)]
         IN  IF table.t = "table"
             THEN LET key_str == to_string(key)
                      value == IF key_str \in DOMAIN table.v THEN table.v[key_str] ELSE Nil
                  IN  Ok([m1 EXCEPT !.stack = Push(@, value)])
             ELSE LET full_name == to_string(table) \o "." \o to_string(key)
                      f == get_function(full_name)
                  IN  IF f[1] THEN Ok([m1 EXCEPT !.stack = Push(@, Function(f[2]))])
                      ELSE Ok([m1 EXCEPT !.stack = Push(@, Nil)])

\* `while frame.locals.len() <= index { push(Nil) }; frame.locals[index] = value`
StoreAt(locals, index, value) ==
    [i \in 1..(IF Len(locals) <= index THEN index + 1 ELSE Len(locals)) |->
        IF i = index + 1 THEN value
        ELSE IF i <= Len(locals) THEN locals[i] ELSE Nil]

\* The top frame's pc set to target (`if let Some(frame) = call_stack.last_mut()`).
SetPc(m, target) ==
    IF m.call_stack = <<>> THEN m
    ELSE [m EXCEPT !.call_stack[Len(m.call_stack)].pc = target]

\* LuaJitRuntime::execute_instruction
execute_instruction(m, instruction) ==
    LET op == instruction.op
        x == instruction.x
    IN  CASE op = "LoadConst" -> Ok([m EXCEPT !.stack = Push(@, x)])
          [] op = "LoadGlobal" ->
                Ok([m EXCEPT !.stack =
                        Push(@, IF x \in DOMAIN m.globals THEN m.globals[x] ELSE Nil)])
          [] op = "StoreGlobal" ->
                IF m.stack # <<>>
                THEN Ok([m EXCEPT !.globals = Insert(@, x, Top(m.stack)),
                                  !.stack = Pop1(@)])
                ELSE Err(m, "Stack underflow")
          [] op = "Call" -> ExecCall(m, x)
          [] op = "GetIndex" -> ExecGetIndex(m)
          [] op = "Pop" ->
                Ok([m EXCEPT !.stack = IF @ = <<>> THEN @ ELSE Pop1(@)])
          [] op = "Return" -> Ok(m)
          [] op = "Add" -> Arith(m, op, "addition", "add non-numeric values")
          [] op = "Sub" -> Arith(m, op, "subtraction", "subtract non-numeric values")
          [] op = "Mul" -> Arith(m, op, "multiplication", "multiply non-numeric values")
          [] op = "Div" -> ArithChecked(m, op, "division", "divide non-numeric values")
          [] op = "LoadLocal" ->
                IF m.call_stack # <<>>
                THEN LET frame == Top(m.call_stack)
                     IN  Ok([m EXCEPT !.stack =
                                Push(@, IF x < Len(frame.locals) THEN frame.locals[x + 1]
                                        ELSE Nil)])
                ELSE Err(m, "No call frame for local variable")
          [] op = "StoreLocal" ->
                IF m.stack # <<>>
                THEN IF m.call_stack # <<>>
                     THEN Ok([m EXCEPT !.stack = Pop1(@),
                                       !.call_stack[Len(m.call_stack)].locals =
                                            StoreAt(@, x, Top(m.stack))])
                     ELSE Err([m EXCEPT !.stack = Pop1(@)],
                              "No call frame for local variable")
                ELSE Err(m, "Stack underflow")
          [] op = "Neg" ->
                IF m.stack = <<>> THEN Err(m, "Not enough operands for negation")
                ELSE LET n == to_number(Top(m.stack))
                         m1 == [m EXCEPT !.stack = Pop1(@)]
                     IN  IF n[1] THEN Ok([m1 EXCEPT !.stack = Push(@, NumberQ(FNeg(n[2])))])
                         ELSE Err(m1, "Cannot negate non-numeric value")
          [] op = "Mod" ->
                ArithChecked(m, op, "modulo", "take modulo of non-numeric values")
          [] op = "Pow" -> Arith(m, op, "power", "raise non-numeric values to power")
          [] op = "Equal" -> Binary(m, op, "equality")
          [] op = "NotEqual" -> Binary(m, op, "inequality")
          [] op = "Less" -> Compare(m, op, "less than")
          [] op = "LessEqual" -> Compare(m, op, "less than or equal")
          [] op = "Greater" -> Compare(m, op, "greater than")
          [] op = "GreaterEqual" -> Compare(m, op, "greater than or equal")
          [] op = "And" -> Binary(m, op, "logical and")
          [] op = "Or" -> Binary(m, op, "logical or")
          [] op = "Not" ->
                IF m.stack = <<>> THEN Err(m, "Not enough operands for logical not")
                ELSE Ok([m EXCEPT !.stack = Push(Pop1(@), Boolean(~is_truthy(Top(m.stack))))])
          [] op = "Concat" -> Binary(m, op, "concatenation")
          [] op = "Jump" -> Ok(SetPc(m, x))
          [] op = "JumpIfFalse" ->
                IF m.stack # <<>>
                THEN LET m1 == [m EXCEPT !.stack = Pop1(@)]
                     IN  IF ~is_truthy(Top(m.stack)) THEN Ok(SetPc(m1, x)) ELSE Ok(m1)
                ELSE Err(m, "Stack underflow for jump condition")
          [] op = "JumpIfTrue" ->
                IF m.stack # <<>>
                THEN LET m1 == [m EXCEPT !.stack = Pop1(@)]
                     IN  IF is_truthy(Top(m.stack)) THEN Ok(SetPc(m1, x)) ELSE Ok(m1)
                ELSE Err(m, "Stack underflow for jump condition")
          [] OTHER -> Err(m, "Unimplemented instruction: " \o op)

\* One CallFrame.
CallFrame(chunk) == [chunk |-> chunk, pc |-> 0, locals |-> <<>>]

\* What execute returns: Ok(value), or Err(LuaError::runtime_error(err)).
OkResult(value) == [kind |-> "Ok", err |-> "", value |-> value]
ErrResult(msg) == [kind |-> "RuntimeError", err |-> msg, value |-> Nil]
Pending == [kind |-> "Pending", err |-> "", value |-> Nil]

\* A completion whose result is the bottom of the operand stack.
FinishWithBottom(m) ==
    [m |-> [m EXCEPT !.stack = IF @ = <<>> THEN @ ELSE Tail(@)],
     status |-> "done",
     result |-> OkResult(IF m.stack = <<>> THEN Nil ELSE m.stack[1])]

\* `Ok(self.stack.pop().unwrap_or(Value::Nil))` after the loop.
Finish(m) ==
    [m |-> [m EXCEPT !.stack = IF @ = <<>> THEN @ ELSE Pop1(@)],
     status |-> "done",
     result |-> OkResult(IF m.stack = <<>> THEN Nil ELSE Top(m.stack))]

Continue(m) == [m |-> m, status |-> "run", result |-> Pending]

\* Fail, were the error return to restore the globals of the start of the call.
FailRollsBack(m, e) ==
    [m |-> [m EXCEPT !.globals = globals0], status |-> "done", result |-> ErrResult(e)]

\* `Err(e) => return Err(e)` in the loop.
Fail(m, e) == [m |-> m, status |-> "done", result |-> ErrResult(e)]

\* A dispatch loop that leaves the pc where it is.
IncPcSkipped(m) == m

\* `frame.pc += 1` on the top frame.
IncPc(m) ==
    IF m.call_stack = <<>> THEN m
    ELSE [m EXCEPT !.call_stack[Len(m.call_stack)].pc = @ + 1]

\* One iteration of the `loop` of execute_with_jit (the jit argument is not used).
DispatchStep(m) ==
    IF m.call_stack = <<>> THEN Finish(m)
    ELSE LET frame == Top(m.call_stack)
         IN  IF frame.pc >= Len(frame.chunk.instructions)
             THEN LET m1 == [m EXCEPT !.call_stack = Pop1(@)]
                  IN  IF m1.call_stack = <<>> THEN Finish(m1) ELSE Continue(m1)
             ELSE LET instruction == frame.chunk.instructions[frame.pc + 1]
                      should_increment == ~IsJump(instruction)
                      r == execute_instruction(m, instruction)
                  IN  IF r.err = ""
                      THEN Continue(IF should_increment THEN IncPc(r.m) ELSE r.m)
                      ELSE Fail(r.m, r.err)

(***************************************************************************)
(* jit.rs: JitCompiler                                                     *)
(***************************************************************************)
\* `threshold: 100` in JitCompiler::new
Threshold == 100

\* JitCompiler::new
NewJitCompiler == [hot_spots |-> <<>>, threshold |-> Threshold, execution_counts |-> <<>>]

\* impl Clone for JitCompiler: the hot spots are not cloned.
JitClone(jit) == [jit EXCEPT !.hot_spots = <<>>]

ExecutionCount(jit, pc) ==
    IF pc \in DOMAIN jit.execution_counts THEN jit.execution_counts[pc] ELSE 0

\* JitCompiler::record_execution
record_execution(jit, pc) ==
    [jit EXCEPT !.execution_counts = Insert(@, pc, ExecutionCount(jit, pc) + 1)]

\* JitCompiler::should_compile
should_compile(jit, pc) == ExecutionCount(jit, pc) >= jit.threshold

\* The status print_stats gives a program counter.
Status(jit, pc) ==
    IF pc \in DOMAIN jit.hot_spots THEN "COMPILED"
    ELSE IF ExecutionCount(jit, pc) >= jit.threshold THEN "READY TO COMPILE"
    ELSE "COLD"

\* The orders sort_by_key(Reverse(count)) can leave the counters in: descending
\* counts, equal counts in the HashMap's iteration order (any order).
SortedCounts(jit) ==
    LET pcs == DOMAIN jit.execution_counts
        n == Cardinality(pcs)
    IN  {s \in [1..n -> pcs] :
            /\ \A i, j \in 1..n : i # j => s[i] # s[j]
            /\ \A i, j \in 1..n : i < j =>
                    jit.execution_counts[s[i]] >= jit.execution_counts[s[j]]}

\* The lines of JitCompiler::print_stats for one order: the header, then the first
\* ten counters as [pc, count, status].
StatsLines(jit, order) ==
    [hot_spots |-> Cardinality(DOMAIN jit.hot_spots),
     lines |-> [i \in 1..(IF Len(order) < 10 THEN Len(order) ELSE 10) |->
                    [pc |-> order[i], count |-> jit.execution_counts[order[i]],
                     status |-> Status(jit, order[i])]]]

\* A scan that leaves out `.skip(start_pc)` and starts at the first instruction.
find_hot_region_end_unskipped(chunk, start_pc) ==
    LET ends == {i \in 0..(Len(chunk.instructions) - 1) :
                    chunk.instructions[i + 1].op \in {"Jump", "JumpIfFalse", "JumpIfTrue", "Return"}}
    IN  IF ends = {} THEN Len(chunk.instructions)
        ELSE (CHOOSE i \in ends : \A j \in ends : i <= j) + 1

\* JitCompiler::find_hot_region_end: one past the first jump or Return at or
\* after start_pc, the chunk's length when there is none.
find_hot_region_end(chunk, start_pc) ==
    LET ends == {i \in start_pc..(Len(chunk.instructions) - 1) :
                    chunk.instructions[i + 1].op \in
                        {"Jump", "JumpIfFalse", "JumpIfTrue", "Return"}}
    IN  IF ends = {} THEN Len(chunk.instructions)
        ELSE (CHOOSE i \in ends : \A j \in ends : i <= j) + 1

RECURSIVE Pow2(_)
Pow2(k) == IF k = 0 THEN 1 ELSE 2 * Pow2(k - 1)

\* floor(log2 n) for n >= 1
RECURSIVE Log2(_)
Log2(n) == IF n < 2 THEN 0 ELSE 1 + Log2(n \div 2)

\* Bits k..k+7 of the 52-bit mantissa of the f64 of the integer n >= 1.
MantissaByte(n, k) ==
    LET e == Log2(n)
        frac == n - Pow2(e)
        shift == 52 - e - k
    IN  IF shift >= 8 THEN 0
        ELSE IF shift >= 0 THEN (frac * Pow2(shift)) % 256
        ELSE (frac \div Pow2(-shift)) % 256

\* n.to_bits().to_le_bytes() for the f64 of an integer (|n| < 2^20): sign,
\* 11 bits of biased exponent, 52 bits of mantissa, least significant byte first.
F64LeBytes(q) ==
    CASE q[2] = 1 /\ q[1] = 0 -> <<0, 0, 0, 0, 0, 0, 0, 0>>
      [] q[2] = 1 /\ q[1] # 0 ->
            LET n == Abs(q[1])
                biased == 1023 + Log2(n)
            IN  <<MantissaByte(n, 0), MantissaByte(n, 8), MantissaByte(n, 16),
                  MantissaByte(n, 24), MantissaByte(n, 32), MantissaByte(n, 40),
                  ((biased % 16) * 16) + MantissaByte(n, 48),
                  (IF q[1] < 0 THEN 128 ELSE 0) + (biased \div 16)>>

\* push rbp; mov rbp, rsp; sub rsp, 32
Prologue == <<85, 72, 137, 229, 72, 131, 236, 32>>

\* mov rsp, rbp; pop rbp; ret
Epilogue == <<72, 137, 236, 93, 195>>

\* The bytes compile_to_native emits for one instruction.
InstructionCode(instruction) ==
    IF instruction.op = "LoadConst"
    THEN IF instruction.x.t = "number"
         THEN <<72, 184>> \o F64LeBytes(instruction.x.v) \o <<102, 72, 15, 110, 192>>
         ELSE <<144>>
    ELSE CASE instruction.op = "Add" -> <<242, 15, 88, 193>>
           [] instruction.op = "Sub" -> <<242, 15, 92, 193>>
           [] instruction.op = "Mul" -> <<242, 15, 89, 193>>
           [] instruction.op = "Div" -> <<242, 15, 94, 193>>
           [] OTHER -> <<144>>

\* `for i in start_pc..end_pc { if let Some(instruction) = chunk.instructions.get(i)`
RECURSIVE RegionCode(_, _, _)
RegionCode(chunk, i, end_pc) ==
    IF i >= end_pc THEN <<>>
    ELSE (IF i < Len(chunk.instructions) THEN InstructionCode(chunk.instructions[i + 1])
          ELSE <<>>) \o RegionCode(chunk, i + 1, end_pc)

\* The machine_code of JitCompiler::compile_to_native on x86_64.
machine_code(chunk, start_pc, end_pc) ==
    Prologue \o RegionCode(chunk, start_pc, end_pc) \o Epilogue

\* `let page_size = 4096`
page_size == 4096

\* `size & !(page_size - 1)`: the size rounded down.
aligned_size_rounded_down(size) == (size \div page_size) * page_size

\* `(size + page_size - 1) & !(page_size - 1)`
aligned_size(size) == ((size + page_size - 1) \div page_size) * page_size

\* The region allocate_executable_memory leaves mapped on success.
Region(code) == [prot |-> "READ|EXEC", size |-> aligned_size(Len(code)), code |-> code]

\* The HotSpot compile_hot_spot builds when compile_to_native is Ok.
HotSpot(jit, chunk, start_pc, entry_point) ==
    [start_pc |-> start_pc,
     end_pc |-> find_hot_region_end(chunk, start_pc),
     execution_count |-> ExecutionCount(jit, start_pc),
     compiled_code |->
        [machine_code |-> machine_code(chunk, start_pc, find_hot_region_end(chunk, start_pc)),
         entry_point |-> entry_point]]

\* JitCompiler::compile_hot_spot when compile_to_native is Ok: the insert replaces
\* the HotSpot the map had for start_pc.
compile_hot_spot(jit, chunk, start_pc, entry_point) ==
    [jit EXCEPT !.hot_spots = Insert(@, start_pc, HotSpot(jit, chunk, start_pc, entry_point))]

\* JitCompiler::get_compiled_code: Option as <<is_some, compiled_code>>.
get_compiled_code(jit, pc) ==
    IF pc \in DOMAIN jit.hot_spots THEN <<TRUE, jit.hot_spots[pc].compiled_code>>
    ELSE <<FALSE, [machine_code |-> <<>>, entry_point |-> 0]>>

(***************************************************************************)
(* The source texts given to execute, each with what Lexer::tokenize and   *)
(* Parser::parse make of it: parse_err (the Err message, "" for Ok) and    *)
(* the Program's statements.                                               *)
(***************************************************************************)
Lit(value) == [k |-> "Literal", value |-> value]
Id(name) == [k |-> "Identifier", name |-> name]
Bin(left, operator, right) ==
    [k |-> "Binary", left |-> left, operator |-> operator, right |-> right]
Un(operator, operand) == [k |-> "Unary", operator |-> operator, operand |-> operand]
CallE(callee, args) == [k |-> "Call", callee |-> callee, args |-> args]
Field(object, field) == [k |-> "FieldAccess", object |-> object, field |-> field]

ExprS(expr) == [k |-> "Expression", expr |-> expr]
Assign(target, value) == [k |-> "Assignment", target |-> target, value |-> value]
Local(names, values) == [k |-> "LocalAssignment", names |-> names, values |-> values]
IfElse(condition, then_branch, else_branch) ==
    [k |-> "If", condition |-> condition, then_branch |-> then_branch,
     has_else |-> TRUE, else_branch |-> else_branch]
IfThen(condition, then_branch) ==
    [k |-> "If", condition |-> condition, then_branch |-> then_branch,
     has_else |-> FALSE, else_branch |-> <<>>]
While(condition, body) == [k |-> "While", condition |-> condition, body |-> body]
For(var, start, end, body) ==
    [k |-> "For", var |-> var, start |-> start, end |-> end,
     has_step |-> FALSE, step |-> Lit(Nil), body |-> body]
ForStep(var, start, end, step, body) ==
    [k |-> "For", var |-> var, start |-> start, end |-> end,
     has_step |-> TRUE, step |-> step, body |-> body]
Return(expr) == [k |-> "Return", has_value |-> TRUE, expr |-> expr]
ReturnNone == [k |-> "Return", has_value |-> FALSE, expr |-> Lit(Nil)]

Parsed(text, program) ==
    [text |-> text, lex_err |-> "", parse_err |-> "", program |-> program]
\* Parser::parse returns Err(msg)
Unparsed(text, msg) == [text |-> text, lex_err |-> "", parse_err |-> msg, program |-> <<>>]
\* Lexer::tokenize returns Err(msg)
Unlexed(text, msg) == [text |-> text, lex_err |-> msg, parse_err |-> "", program |-> <<>>]

N(n) == Lit(Number(n))

\* The programs of test_if_statement, test_while_loop and test_for_loop.
SrcIf ==
    Parsed("local x = 10\nif x > 5 then\nreturn \"greater\"\nelse\nreturn \"lesser\"\nend",
           <<Local(<<"x">>, <<N(10)>>),
             IfElse(Bin(Id("x"), "Greater", N(5)),
                    <<Return(Lit(String("greater")))>>,
                    <<Return(Lit(String("lesser")))>>)>>)
SrcWhile ==
    Parsed("local sum = 0\nlocal i = 1\nwhile i <= 5 do\nsum = sum + i\ni = i + 1\nend\nreturn sum",
           <<Local(<<"sum">>, <<N(0)>>), Local(<<"i">>, <<N(1)>>),
             While(Bin(Id("i"), "LessEqual", N(5)),
                   <<Assign("sum", Bin(Id("sum"), "Add", Id("i"))),
                     Assign("i", Bin(Id("i"), "Add", N(1)))>>),
             Return(Id("sum"))>>)
SrcFor ==
    Parsed("local sum = 0\nfor i = 1, 5 do\nsum = sum + i\nend\nreturn sum",
           <<Local(<<"sum">>, <<N(0)>>),
             For("i", N(1), N(5), <<Assign("sum", Bin(Id("sum"), "Add", Id("i")))>>),
             Return(Id("sum"))>>)

\* The sources the tests of the repository execute.
TestSources ==
    <<Parsed("return 2 + 3", <<Return(Bin(N(2), "Add", N(3)))>>),
      Parsed("return 8 / 2", <<Return(Bin(N(8), "Div", N(2)))>>),
      Parsed("return 5 / 0", <<Return(Bin(N(5), "Div", N(0)))>>),
      Unparsed("return 5 +", "Unexpected end of input"),
      Parsed("x = 42", <<Assign("x", N(42))>>),
      Parsed("return x", <<Return(Id("x"))>>),
      Parsed("return x + 8", <<Return(Bin(Id("x"), "Add", N(8)))>>),
      Parsed("return 2 * 3 + 1", <<Return(Bin(Bin(N(2), "Mul", N(3)), "Add", N(1)))>>),
      SrcIf, SrcWhile, SrcFor,
      Parsed("local x = 10\nlocal y = 20\nreturn x + y",
             <<Local(<<"x">>, <<N(10)>>), Local(<<"y">>, <<N(20)>>),
               Return(Bin(Id("x"), "Add", Id("y")))>>),
      Parsed("return true and false",
             <<Return(Bin(Lit(Boolean(TRUE)), "And", Lit(Boolean(FALSE))))>>),
      Parsed("return true or false",
             <<Return(Bin(Lit(Boolean(TRUE)), "Or", Lit(Boolean(FALSE))))>>),
      Parsed("return not true", <<Return(Un("Not", Lit(Boolean(TRUE))))>>),
      Parsed("return math.abs(-42)",
             <<Return(CallE(Field(Id("math"), "abs"), <<Un("Minus", N(42))>>))>>)>>

\* Further sources, one for each case of the code the tests leave out.
CaseSources ==
    <<Parsed("return 5 % 0", <<Return(Bin(N(5), "Mod", N(0)))>>),
      Unlexed("x = \"abc", "Unterminated string"),
      Parsed("x = 7\ny = x / 0",
             <<Assign("x", N(7)), Assign("y", Bin(Id("x"), "Div", N(0)))>>),
      Parsed("if false then z = 1 else z = 2 end",
             <<IfElse(Lit(Boolean(FALSE)), <<Assign("z", N(1))>>, <<Assign("z", N(2))>>)>>),
      Parsed("if true then z = 1 end",
             <<IfThen(Lit(Boolean(TRUE)), <<Assign("z", N(1))>>)>>),
      Parsed("n = 0\nwhile n < 2 do n = n + 1 end",
             <<Assign("n", N(0)),
               While(Bin(Id("n"), "Less", N(2)),
                     <<Assign("n", Bin(Id("n"), "Add", N(1)))>>)>>),
      Parsed("while false do w = 1 end\nw = 3",
             <<While(Lit(Boolean(FALSE)), <<Assign("w", N(1))>>), Assign("w", N(3))>>),
      Parsed("t = 0\nfor i = 1, 3 do t = t + i end",
             <<Assign("t", N(0)),
               For("i", N(1), N(3), <<Assign("t", Bin(Id("t"), "Add", Id("i")))>>)>>),
      Parsed("for i = 2, 1 do w = i end\nw = 4",
             <<For("i", N(2), N(1), <<Assign("w", Id("i"))>>), Assign("w", N(4))>>),
      Parsed("print(\"hi\", 1)",
             <<ExprS(CallE(Id("print"), <<Lit(String("hi")), N(1)>>))>>),
      Parsed("math()", <<ExprS(CallE(Id("math"), <<>>))>>),
      Parsed("foo(1)", <<ExprS(CallE(Id("foo"), <<N(1)>>))>>),
      Parsed("local a = 1\nlocal b = 2\nb = 3\ng = 4\nla = a\nlb = b",
             <<Local(<<"a">>, <<N(1)>>), Local(<<"b">>, <<N(2)>>), Assign("b", N(3)),
               Assign("g", N(4)), Assign("la", Id("a")), Assign("lb", Id("b"))>>),
      Parsed("x = 1\nbreak", <<Assign("x", N(1)), [k |-> "Break"]>>),
      Parsed("y = 1\nfunction f() end", <<Assign("y", N(1)), [k |-> "Function"]>>),
      Unparsed("x = 1\ny = t[1]", "Unexpected token: LeftBracket")>>

Sources == TestSources \o CaseSources

\* The index in Sources of a source text.
Src(text) == CHOOSE i \in 1..Len(Sources) : Sources[i].text = text

(***************************************************************************)
(* The runtime as a state machine                                          *)
(***************************************************************************)
\* Number of execute calls explored on one runtime.
MaxCalls == 2

\* `for i in 0..150` of test_jit_hot_path.
HotRuns == 150

\* No call has been made on the chunk under construction.
NoCall == [op |-> "", arg |-> 0, panicked |-> FALSE]

\* No compile_hot_spot call is in progress.
NoAlloc == [phase |-> "idle", addr |-> 0, chunk |-> 0, start_pc |-> 0]

\* Compiler::compile has not returned.
NotCompiled == [done |-> FALSE, chunk |-> NewChunk, err |-> ""]

\* LuaJitRuntime::new
Init ==
    /\ globals = add_builtins
    /\ stack = <<>>
    /\ call_stack = <<>>
    /\ jit_compiler = NewJitCompiler
    /\ mode = "idle"
    /\ result = Pending
    /\ printed = <<>>
    /\ stats = [hot_spots |-> 0, lines |-> <<>>]
    /\ source = 0
    /\ globals0 = add_builtins
    /\ calls = 0
    /\ hash_order = <<>>
    /\ input_program = <<>>
    /\ compile_result = NotCompiled
    /\ chunk_built = NewChunk
    /\ chunk_call = NoCall
    /\ jitc = NewJitCompiler
    /\ mappings = <<>>
    /\ jit_result = ""
    /\ build_target = "x86_64_unix"
    /\ alloc_call = NoAlloc

Machine == [globals |-> globals, stack |-> stack, call_stack |-> call_stack,
            printed |-> printed, hash_order |-> hash_order]

\* execute_internal up to the call of execute_with_jit: tokenize, parse and compile,
\* each followed by `?`. The chunk, or the Err that `?` returns.
front_end(src) ==
    IF src.lex_err # "" THEN [chunk |-> NewChunk, err |-> src.lex_err]
    ELSE IF src.parse_err # "" THEN [chunk |-> NewChunk, err |-> src.parse_err]
    ELSE compile(src.program)

\* LuaJitRuntime::execute up to the entry of the dispatch loop: execute_internal
\* (tokenize, parse, compile, each `?`), then the frame push and stack.clear() of
\* execute_with_jit, which is handed jit_compiler.clone().
ExecuteCall(i) ==
    /\ mode = "idle"
    /\ calls' = calls + 1
    /\ source' = i
    /\ globals0' = globals
    /\ printed' = <<>>
    /\ IF front_end(Sources[i]).err # ""
       THEN /\ result' = ErrResult(front_end(Sources[i]).err)
            /\ UNCHANGED <<stack, call_stack, mode>>
       ELSE /\ call_stack' = Append(call_stack, CallFrame(front_end(Sources[i]).chunk))
            /\ stack' = <<>>
            /\ mode' = "run"
            /\ result' = Pending
    /\ UNCHANGED <<globals, jit_compiler, stats, hash_order>>
    /\ UNCHANGED jit_vars
    /\ UNCHANGED compiler_vars
    /\ UNCHANGED chunk_vars

Execute(i) == calls < MaxCalls /\ ExecuteCall(i)

\* The test_jit_hot_path loop: the same source again and again.
ExecuteHot == calls < HotRuns /\ ExecuteCall(Src("return 2 * 3 + 1"))

\* The key sets of the tables the next instruction Debug-formats (the callee of a
\* Call that is a table) whose iteration order this runtime has not shown yet.
UnobservedKeys(m) ==
    IF /\ m.call_stack # <<>>
       /\ Top(m.call_stack).pc < Len(Top(m.call_stack).chunk.instructions)
       /\ Top(m.call_stack).chunk.instructions[Top(m.call_stack).pc + 1].op = "Call"
       /\ m.stack # <<>>
       /\ Top(m.stack).t = "table"
       /\ DOMAIN Top(m.stack).v \notin DOMAIN m.hash_order
    THEN {DOMAIN Top(m.stack).v}
    ELSE {}

\* hash_order, extended by an order for each of UnobservedKeys: the order is the
\* map's since it was built, and any of Orders is possible.
HashOrderChoices(m) ==
    IF UnobservedKeys(m) = {} THEN {m.hash_order}
    ELSE {Insert(m.hash_order, K, order) :
            K \in UnobservedKeys(m), order \in Orders(DOMAIN Top(m.stack).v)}

\* One iteration of the dispatch loop of the execute call in progress; on a return
\* of execute_with_jit, execute hands the result to the caller.
Step ==
    /\ mode = "run"
    /\ \E orders \in HashOrderChoices(Machine) :
        LET d == DispatchStep([Machine EXCEPT !.hash_order = orders])
        IN  /\ globals' = d.m.globals
            /\ stack' = d.m.stack
            /\ call_stack' = d.m.call_stack
            /\ printed' = d.m.printed
            /\ hash_order' = d.m.hash_order
            /\ mode' = IF d.status = "done" THEN "idle" ELSE "run"
            /\ result' = d.result
    /\ UNCHANGED <<jit_compiler, stats, source, globals0, calls>>
    /\ UNCHANGED jit_vars
    /\ UNCHANGED compiler_vars
    /\ UNCHANGED chunk_vars

\* LuaJitRuntime::print_stats
PrintStats ==
    /\ mode = "idle"
    /\ \E order \in SortedCounts(jit_compiler) : stats' = StatsLines(jit_compiler, order)
    /\ UNCHANGED <<globals, stack, call_stack, jit_compiler, mode, result, printed,
                   source, globals0, calls, hash_order>>
    /\ UNCHANGED jit_vars
    /\ UNCHANGED compiler_vars
    /\ UNCHANGED chunk_vars

Next ==
    \/ \E i \in 1..Len(Sources) : Execute(i)
    \/ Step
    \/ PrintStats

Spec == Init /\ [][Next]_vars

NextHot ==
    \/ ExecuteHot
    \/ Step
    \/ PrintStats

SpecHot == Init /\ [][NextHot]_vars

(***************************************************************************)
(* A JitCompiler as a state machine: the public operations of jit.rs on    *)
(* one JitCompiler value, and the regions its compilations map.            *)
(***************************************************************************)
\* Executions recorded per program counter.
MaxCount == 1

\* Regions the process can hold mapped at once.
MaxMappings == 2

\* The targets the cfg attributes of jit.rs tell apart.
Targets == {"x86_64_unix", "x86_64_windows", "other"}

\* The chunks handed to compile_hot_spot.
JitChunks ==
    <<compile(Sources[Src("return 2 * 3 + 1")].program).chunk,
      compile(Sources[Src("n = 0\nwhile n < 2 do n = n + 1 end")].program).chunk>>

\* The program counters handed to record_execution and compile_hot_spot: the start
\* of a chunk, the middle of one, and one past the end of both chunks.
JitPcs == {0, 3, 20}

runtime_vars == <<globals, stack, call_stack, jit_compiler, mode, result, printed,
                  source, globals0, calls, hash_order>>

InitJit ==
    /\ globals = add_builtins
    /\ stack = <<>>
    /\ call_stack = <<>>
    /\ jit_compiler = NewJitCompiler
    /\ mode = "idle"
    /\ result = Pending
    /\ printed = <<>>
    /\ stats = [hot_spots |-> 0, lines |-> <<>>]
    /\ source = 0
    /\ globals0 = add_builtins
    /\ calls = 0
    /\ hash_order = <<>>
    /\ input_program = <<>>
    /\ compile_result = NotCompiled
    /\ chunk_built = NewChunk
    /\ chunk_call = NoCall
    /\ jitc = NewJitCompiler
    /\ mappings = <<>>
    /\ jit_result = ""
    /\ build_target \in Targets
    /\ alloc_call = NoAlloc

\* JitCompiler::record_execution
RecordExecution(pc) ==
    /\ ExecutionCount(jitc, pc) < MaxCount
    /\ jitc' = record_execution(jitc, pc)
    /\ UNCHANGED <<mappings, jit_result, build_target, alloc_call, stats>>
    /\ UNCHANGED runtime_vars
    /\ UNCHANGED compiler_vars
    /\ UNCHANGED chunk_vars

\* The addresses mmap can return: those of no live region.
FreeAddresses == (1..MaxMappings) \ DOMAIN mappings

\* mmap, copy and mprotect succeed: the region stays mapped and the HotSpot that
\* points to it is inserted. (Which free address mmap picks does not matter; the
\* lowest one is taken.)
CompileSucceeds(chunk, start_pc) ==
    /\ build_target = "x86_64_unix"
    /\ FreeAddresses # {}
    /\ mappings' = Insert(mappings,
                          CHOOSE a \in FreeAddresses : \A b \in FreeAddresses : a <= b,
                          Region(machine_code(chunk, start_pc,
                                              find_hot_region_end(chunk, start_pc))))
    /\ jitc' = compile_hot_spot(jitc, chunk, start_pc,
                               CHOOSE a \in FreeAddresses : \A b \in FreeAddresses : a <= b)
    /\ jit_result' = "Ok"

\* compile_to_native returns Err and `?` returns it: no HotSpot is inserted. After
\* a failed mprotect the region was unmapped again.
CompileFails(msg) ==
    /\ jit_result' = msg
    /\ UNCHANGED <<jitc, mappings>>

\* JitCompiler::compile_hot_spot
CompileHotSpot(chunk, start_pc) ==
    /\ \/ CompileSucceeds(chunk, start_pc)
       \/ build_target = "x86_64_unix" /\ CompileFails("Failed to allocate memory")
       \/ build_target = "x86_64_unix" /\ CompileFails("Failed to make memory executable")
       \/ build_target = "x86_64_windows" /\ CompileFails("Windows JIT compilation not implemented")
       \/ build_target = "other" /\ CompileFails("JIT compilation only supported on x86_64")
    /\ UNCHANGED <<build_target, alloc_call, stats>>
    /\ UNCHANGED runtime_vars
    /\ UNCHANGED compiler_vars
    /\ UNCHANGED chunk_vars

\* JitCompiler::print_stats
JitPrintStats ==
    /\ \E order \in SortedCounts(jitc) : stats' = StatsLines(jitc, order)
    /\ UNCHANGED jit_vars
    /\ UNCHANGED runtime_vars
    /\ UNCHANGED compiler_vars
    /\ UNCHANGED chunk_vars

NextJit ==
    \/ \E pc \in JitPcs : RecordExecution(pc)
    \/ \E i \in 1..Len(JitChunks), start_pc \in JitPcs : CompileHotSpot(JitChunks[i], start_pc)
    \/ JitPrintStats

SpecJit == InitJit /\ [][NextJit]_vars

(***************************************************************************)
(* compile_hot_spot step by step: the system calls of                      *)
(* allocate_executable_memory are separate steps, so that the states a     *)
(* region goes through are states of the model.                            *)
(***************************************************************************)
\* The machine code compile_to_native has built for the call in progress.
AllocCode ==
    machine_code(JitChunks[alloc_call.chunk], alloc_call.start_pc,
                 find_hot_region_end(JitChunks[alloc_call.chunk], alloc_call.start_pc))

\* What is left of the mappings after munmap(addr).
Unmapped(maps, addr) == [a \in DOMAIN maps \ {addr} |-> maps[a]]

\* `libc::mmap(null, aligned_size, PROT_READ | PROT_WRITE, ...)` returns a region.
MmapOk(i, start_pc) ==
    /\ build_target = "x86_64_unix"
    /\ FreeAddresses # {}
    /\ mappings' = Insert(mappings,
                          CHOOSE a \in FreeAddresses : \A b \in FreeAddresses : a <= b,
                          [prot |-> "READ|WRITE",
                           size |-> aligned_size(Len(machine_code(JitChunks[i], start_pc,
                                            find_hot_region_end(JitChunks[i], start_pc)))),
                           code |-> <<>>])
    /\ alloc_call' = [phase |-> "mapped",
                      addr |-> CHOOSE a \in FreeAddresses : \A b \in FreeAddresses : a <= b,
                      chunk |-> i, start_pc |-> start_pc]
    /\ UNCHANGED <<jitc, jit_result>>

\* compile_hot_spot is called: compile_to_native builds the machine code and
\* allocate_executable_memory calls mmap, which returns a region or MAP_FAILED; on
\* the other targets compile_to_native returns its Err.
Mmap(i, start_pc) ==
    /\ alloc_call.phase = "idle"
    /\ \/ MmapOk(i, start_pc)
       \/ build_target = "x86_64_unix" /\ CompileFails("Failed to allocate memory")
                /\ UNCHANGED alloc_call
       \/ build_target = "x86_64_windows"
                /\ CompileFails("Windows JIT compilation not implemented")
                /\ UNCHANGED alloc_call
       \/ build_target = "other" /\ CompileFails("JIT compilation only supported on x86_64")
                /\ UNCHANGED alloc_call
    /\ UNCHANGED <<build_target, stats>>
    /\ UNCHANGED runtime_vars
    /\ UNCHANGED compiler_vars
    /\ UNCHANGED chunk_vars

\* `ptr::copy_nonoverlapping(code.as_ptr(), addr as *mut u8, code.len())`
CopyCode ==
    /\ alloc_call.phase = "mapped"
    /\ mappings' = [mappings EXCEPT ![alloc_call.addr].code = AllocCode]
    /\ alloc_call' = [alloc_call EXCEPT !.phase = "copied"]
    /\ UNCHANGED <<jitc, jit_result, build_target, stats>>
    /\ UNCHANGED runtime_vars
    /\ UNCHANGED compiler_vars
    /\ UNCHANGED chunk_vars

\* mprotect(addr, aligned_size, PROT_READ | PROT_EXEC) returns 0.
ProtectOk ==
    /\ mappings' = [mappings EXCEPT ![alloc_call.addr].prot = "READ|EXEC"]
    /\ alloc_call' = [alloc_call EXCEPT !.phase = "protected"]
    /\ UNCHANGED <<jitc, jit_result>>

\* A failed mprotect that returns the Err without the munmap.
ProtectFailsLeaking ==
    /\ jit_result' = "Failed to make memory executable"
    /\ alloc_call' = NoAlloc
    /\ UNCHANGED <<jitc, mappings>>

\* mprotect fails: `libc::munmap(addr, aligned_size); return Err(...)`, which the
\* `?`s of compile_to_native and compile_hot_spot return.
ProtectFails ==
    /\ mappings' = Unmapped(mappings, alloc_call.addr)
    /\ jit_result' = "Failed to make memory executable"
    /\ alloc_call' = NoAlloc
    /\ UNCHANGED jitc

\* `libc::mprotect(addr, aligned_size, libc::PROT_READ | libc::PROT_EXEC)`
Mprotect ==
    /\ alloc_call.phase = "copied"
    /\ (ProtectOk \/ ProtectFails)
    /\ UNCHANGED <<build_target, stats>>
    /\ UNCHANGED runtime_vars
    /\ UNCHANGED compiler_vars
    /\ UNCHANGED chunk_vars

\* An insert after which the region is released again.
InsertHotSpotUnmapping ==
    /\ alloc_call.phase = "protected"
    /\ jitc' = compile_hot_spot(jitc, JitChunks[alloc_call.chunk], alloc_call.start_pc,
                               alloc_call.addr)
    /\ mappings' = Unmapped(mappings, alloc_call.addr)
    /\ jit_result' = "Ok"
    /\ alloc_call' = NoAlloc
    /\ UNCHANGED <<build_target, stats>>
    /\ UNCHANGED runtime_vars
    /\ UNCHANGED compiler_vars
    /\ UNCHANGED chunk_vars

\* allocate_executable_memory returns Ok(addr), compile_to_native the CompiledCode,
\* and compile_hot_spot inserts the HotSpot and returns Ok.
InsertHotSpot ==
    /\ alloc_call.phase = "protected"
    /\ jitc' = compile_hot_spot(jitc, JitChunks[alloc_call.chunk], alloc_call.start_pc,
                               alloc_call.addr)
    /\ jit_result' = "Ok"
    /\ alloc_call' = NoAlloc
    /\ UNCHANGED <<mappings, build_target, stats>>
    /\ UNCHANGED runtime_vars
    /\ UNCHANGED compiler_vars
    /\ UNCHANGED chunk_vars

\* record_execution between two compile_hot_spot calls.
RecordBetween(pc) ==
    /\ alloc_call.phase = "idle"
    /\ RecordExecution(pc)

NextAlloc ==
    \/ \E i \in 1..Len(JitChunks), start_pc \in JitPcs : Mmap(i, start_pc)
    \/ CopyCode
    \/ Mprotect
    \/ InsertHotSpot
    \/ \E pc \in JitPcs : RecordBetween(pc)

SpecAlloc == InitJit /\ [][NextAlloc]_vars

(***************************************************************************)
(* Compiler::compile as a state machine: a Program is handed to a new      *)
(* Compiler and compile returns its chunk or its error.                    *)
(***************************************************************************)
\* Depth to which if, while and for are nested in the programs compiled.
MaxDepth == 3

\* The statements without a body: an assignment, and one the compiler has no arm for.
Leaves == {Assign("x", N(1)), [k |-> "Break"]}

\* The condition of the ifs and whiles: `x < 3`.
Cond == Bin(Id("x"), "Less", N(3))

\* The constructs with stmt in a body: if without and with else (stmt in either
\* branch), while, for.
Constructs(stmt) ==
    {IfThen(Cond, <<stmt>>),
     IfElse(Cond, <<stmt>>, <<Assign("x", N(1))>>),
     IfElse(Cond, <<Assign("x", N(1))>>, <<stmt>>),
     While(Cond, <<stmt>>),
     For("i", N(1), N(2), <<stmt>>)}

RECURSIVE Nested(_)
Nested(depth) ==
    IF depth = 0 THEN Leaves
    ELSE Leaves \cup UNION {Constructs(stmt) : stmt \in Nested(depth - 1)}

\* Programs of nested constructs: one statement, alone or after an assignment.
NestedPrograms ==
    {<<stmt>> : stmt \in Nested(MaxDepth)}
        \cup {<<Assign("x", N(0)), stmt>> : stmt \in Nested(MaxDepth)}

\* Statements before the last of a program of declarations.
MaxDecls == 2

\* Statements that declare locals, at the top level and in the body of an if, a
\* while and a for (whose variable is a local too), and one that declares none.
Declarations ==
    {Local(<<"a">>, <<N(1)>>),
     Local(<<"a", "b">>, <<N(1), N(2)>>),
     IfThen(Cond, <<Local(<<"a">>, <<N(3)>>)>>),
     While(Cond, <<Local(<<"b">>, <<N(4)>>)>>),
     For("a", N(1), N(2), <<Local(<<"b">>, <<N(5)>>)>>),
     Assign("x", N(1))}

RECURSIVE DeclarationLists(_)
DeclarationLists(n) ==
    IF n = 0 THEN {<<>>}
    ELSE DeclarationLists(n - 1)
            \cup {Append(decls, stmt) : decls \in DeclarationLists(n - 1),
                                        stmt \in Declarations}

\* A read `g = name` or a write `name = 9` of a name, after the declarations.
Probes ==
    {Assign("g", Id(name)) : name \in {"a", "b", "c"}}
        \cup {Assign(name, N(9)) : name \in {"a", "b", "c"}}

\* Programs of declarations followed by a read or a write of a name.
DeclPrograms ==
    {Append(decls, probe) : decls \in DeclarationLists(MaxDecls), probe \in Probes}

\* Program.statements
Programs == NestedPrograms \cup DeclPrograms

InitCompile ==
    /\ globals = add_builtins
    /\ stack = <<>>
    /\ call_stack = <<>>
    /\ jit_compiler = NewJitCompiler
    /\ mode = "idle"
    /\ result = Pending
    /\ printed = <<>>
    /\ stats = [hot_spots |-> 0, lines |-> <<>>]
    /\ source = 0
    /\ globals0 = add_builtins
    /\ calls = 0
    /\ hash_order = <<>>
    /\ input_program \in Programs
    /\ compile_result = NotCompiled
    /\ chunk_built = NewChunk
    /\ chunk_call = NoCall
    /\ jitc = NewJitCompiler
    /\ mappings = <<>>
    /\ jit_result = ""
    /\ build_target = "x86_64_unix"
    /\ alloc_call = NoAlloc

\* Compiler::new().compile(&program)
Compile ==
    /\ ~compile_result.done
    /\ compile_result' = [done |-> TRUE, chunk |-> compile(input_program).chunk,
                          err |-> compile(input_program).err]
    /\ UNCHANGED input_program
    /\ UNCHANGED <<stats, jit_vars, runtime_vars, chunk_vars>>

NextCompile == Compile

SpecCompile == InitCompile /\ [][NextCompile]_vars

(***************************************************************************)
(* One execute call, on a new runtime, of a program of one assignment      *)
(* `r = e`, e an operation on operands of every kind of Value.             *)
(***************************************************************************)
\* The operands: literals of each kind (of the strings, one is the text of a
\* number), globals that are a table, a function and undefined, and a field of a
\* table.
Atoms ==
    {Lit(Nil), Lit(Boolean(TRUE)), Lit(Boolean(FALSE)), N(0), N(1),
     Lit(String("")), Lit(String("math")), Lit(String("1")),
     Id("math"), Id("print"), Id("foo"), Field(Id("math"), "abs")}

\* The field names: one the math table and the registry have, one they have not.
FieldNames == {"abs", "nope"}

\* The argument lists: (), (-42), ("hi", 1).
ArgLists == {<<>>, <<Un("Minus", N(42))>>, <<Lit(String("hi")), N(1)>>}

BinaryOps ==
    {"Add", "Sub", "Mul", "Div", "Mod", "Pow", "Equal", "NotEqual", "Less", "LessEqual",
     "Greater", "GreaterEqual", "And", "Or", "Concat"}

\* Right operands that write a line (print("hi")) and that fail (foo(), foo
\* undefined).
EffectOperands == {CallE(Id("print"), <<Lit(String("hi"))>>), CallE(Id("foo"), <<>>)}

\* math.abs(-42), and the expressions that have it as an operand and as an argument.
AbsCall == CallE(Field(Id("math"), "abs"), <<Un("Minus", N(42))>>)
NestedCalls == {Bin(N(1), "Add", AbsCall), CallE(Id("print"), <<AbsCall, N(1)>>)}

Exprs ==
    {Field(a, f) : a \in Atoms, f \in FieldNames}
        \cup {CallE(a, args) : a \in Atoms, args \in ArgLists}
        \cup {Bin(a, op, b) : a \in Atoms, op \in BinaryOps, b \in Atoms}
        \cup {Un(op, a) : op \in {"Minus", "Not"}, a \in Atoms}
        \cup {Bin(Lit(Boolean(a)), op, b) :
                    a \in BOOLEAN, op \in {"And", "Or"}, b \in EffectOperands}
        \cup NestedCalls

ExprPrograms == {<<Assign("r", e)>> : e \in Exprs}

InitExpr ==
    /\ globals = add_builtins
    /\ stack = <<>>
    /\ call_stack = <<>>
    /\ jit_compiler = NewJitCompiler
    /\ mode = "idle"
    /\ result = Pending
    /\ printed = <<>>
    /\ stats = [hot_spots |-> 0, lines |-> <<>>]
    /\ source = 0
    /\ globals0 = add_builtins
    /\ calls = 0
    /\ hash_order = <<>>
    /\ input_program \in ExprPrograms
    /\ compile_result = NotCompiled
    /\ chunk_built = NewChunk
    /\ chunk_call = NoCall
    /\ jitc = NewJitCompiler
    /\ mappings = <<>>
    /\ jit_result = ""
    /\ build_target = "x86_64_unix"
    /\ alloc_call = NoAlloc

\* LuaJitRuntime::execute of a source that parses to input_program, up to the
\* entry of the dispatch loop (as ExecuteCall).
ExecuteProgram ==
    /\ mode = "idle"
    /\ calls = 0
    /\ calls' = calls + 1
    /\ globals0' = globals
    /\ printed' = <<>>
    /\ compile_result' = [done |-> TRUE, chunk |-> compile(input_program).chunk,
                          err |-> compile(input_program).err]
    /\ IF compile(input_program).err # ""
       THEN /\ result' = ErrResult(compile(input_program).err)
            /\ UNCHANGED <<stack, call_stack, mode>>
       ELSE /\ call_stack' = Append(call_stack, CallFrame(compile(input_program).chunk))
            /\ stack' = <<>>
            /\ mode' = "run"
            /\ result' = Pending
    /\ UNCHANGED <<globals, jit_compiler, stats, hash_order, source, input_program>>
    /\ UNCHANGED jit_vars
    /\ UNCHANGED chunk_vars

NextExpr ==
    \/ ExecuteProgram
    \/ Step

SpecExpr == InitExpr /\ [][NextExpr]_vars

(***************************************************************************)
(* One execute call, on a new runtime, of a program of statements of every *)
(* kind the compiler accepts.                                              *)
(***************************************************************************)
\* `local a = ...` and `local a, b = ...` with no value, as many values as names,
\* fewer and more, followed by `ra = a` and `rb = b`.
LocalPrograms ==
    {<<Local(names, values), Assign("ra", Id("a")), Assign("rb", Id("b"))>> :
        names \in {<<"a">>, <<"a", "b">>},
        values \in {<<>>, <<N(1)>>, <<N(1), N(2)>>, <<N(1), N(2), N(3)>>}}

\* The loop bodies: empty, and one that reads the loop variable.
ForBodies == {<<>>, <<Assign("x", Id("i"))>>}

\* `for i = start, end [, step] do body end` over bounds 1 and 5 and the steps
\* 1, 2 and -1 (which the parser reads as the negation of 1).
ForPrograms ==
    {<<For("i", N(start), N(end), body)>> :
        start \in {1, 5}, end \in {1, 5}, body \in ForBodies}
    \cup {<<ForStep("i", N(start), N(end), step, body)>> :
            start \in {1, 5}, end \in {1, 5},
            step \in {N(1), N(2), Un("Minus", N(1))}, body \in ForBodies}

\* Loops whose body, or the statement after them, names i_end or i_step.
HiddenNamePrograms ==
    {<<For("i", N(1), N(3), <<Assign("x", Id("i_end"))>>)>>,
     <<For("i", N(1), N(3), <<Assign("i_step", N(0))>>)>>,
     <<For("i", N(5), N(1), <<>>), Assign("y", Id("i_end")), Assign("z", Id("i_step"))>>}

\* The conditions: true, false, nil, an undefined global, 0.
Conditions == {Lit(Boolean(TRUE)), Lit(Boolean(FALSE)), Lit(Nil), Id("u"), N(0)}

\* Programs with no loop: if with and without else, an if inside a branch, an
\* expression statement, a return.
BranchPrograms ==
    {<<IfThen(c, <<Assign("x", N(1))>>), Assign("y", N(2))>> : c \in Conditions}
    \cup {<<IfElse(c, <<Assign("x", N(1))>>, <<Assign("x", N(2))>>), Return(Id("x"))>> :
            c \in Conditions}
    \cup {<<IfElse(c, <<Assign("x", N(1))>>,
                   <<IfThen(d, <<ExprS(CallE(Id("print"), <<Lit(String("hi"))>>))>>)>>),
            ExprS(CallE(Id("print"), <<Id("x")>>)), ReturnNone>> :
            c \in Conditions, d \in Conditions}
    \cup {<<ExprS(N(1)), Assign("x", N(1)), Return(Bin(Id("x"), "Add", N(1)))>>}

\* while loops, and one assignment for each binary and unary operator, a call and
\* a field access.
OtherPrograms ==
    {<<While(c, <<Assign("x", N(1))>>), Assign("y", N(2))>> : c \in Conditions}
    \cup {<<Assign("r", Bin(N(1), op, N(2)))>> : op \in BinaryOps}
    \cup {<<Assign("r", Un(op, N(1)))>> : op \in {"Minus", "Not"}}
    \cup {<<Assign("r", CallE(Field(Id("math"), "abs"), <<N(1)>>))>>}

StmtPrograms ==
    LocalPrograms \cup ForPrograms \cup HiddenNamePrograms \cup BranchPrograms
        \cup OtherPrograms

InitStmt ==
    /\ globals = add_builtins
    /\ stack = <<>>
    /\ call_stack = <<>>
    /\ jit_compiler = NewJitCompiler
    /\ mode = "idle"
    /\ result = Pending
    /\ printed = <<>>
    /\ stats = [hot_spots |-> 0, lines |-> <<>>]
    /\ source = 0
    /\ globals0 = add_builtins
    /\ calls = 0
    /\ hash_order = <<>>
    /\ input_program \in StmtPrograms
    /\ compile_result = NotCompiled
    /\ chunk_built = NewChunk
    /\ chunk_call = NoCall
    /\ jitc = NewJitCompiler
    /\ mappings = <<>>
    /\ jit_result = ""
    /\ build_target = "x86_64_unix"
    /\ alloc_call = NoAlloc

NextStmt ==
    \/ ExecuteProgram
    \/ Step

SpecStmt == InitStmt /\ [][NextStmt]_vars

(***************************************************************************)
(* A Chunk as a state machine: Chunk::new, then the public operations      *)
(* emit, add_constant and patch_jump in any order. A panic ends the run.   *)
(***************************************************************************)
\* Instructions emitted into the chunk under construction.
MaxInstructions == 3

\* The instructions emitted: the three jumps, and others with and without operand.
EmittedInstructions ==
    {Instr("Jump", 0), Instr("JumpIfFalse", 0), Instr("JumpIfTrue", 0),
     Instr("Pop", 0), Instr("LoadLocal", 1)}

\* Chunk::emit
Emit(instruction) ==
    /\ ~chunk_call.panicked
    /\ Len(chunk_built.instructions) < MaxInstructions
    /\ chunk_built' = emit(chunk_built, instruction, Len(chunk_built.instructions) + 1)
    /\ chunk_call' = [op |-> "emit", arg |-> 0, panicked |-> FALSE]
    /\ UNCHANGED <<stats, jit_vars, runtime_vars, compiler_vars>>

\* Chunk::add_constant
AddConstant ==
    /\ ~chunk_call.panicked
    /\ Len(chunk_built.constants) < 1
    /\ chunk_built' = add_constant(chunk_built, Number(7))[1]
    /\ chunk_call' = [op |-> "add_constant", arg |-> 0, panicked |-> FALSE]
    /\ UNCHANGED <<stats, jit_vars, runtime_vars, compiler_vars>>

\* Chunk::patch_jump: the index panic of `self.instructions[offset]` and the
\* panic!("Not a jump instruction") unwind before anything is written.
PatchJump(offset) ==
    /\ ~chunk_call.panicked
    /\ IF patch_jump_panics(chunk_built, offset)
       THEN /\ chunk_call' = [op |-> "patch_jump", arg |-> offset, panicked |-> TRUE]
            /\ UNCHANGED chunk_built
       ELSE /\ chunk_call' = [op |-> "patch_jump", arg |-> offset, panicked |-> FALSE]
            /\ chunk_built' = patch_jump(chunk_built, offset)
    /\ UNCHANGED <<stats, jit_vars, runtime_vars, compiler_vars>>

NextChunk ==
    \/ \E instruction \in EmittedInstructions : Emit(instruction)
    \/ AddConstant
    \/ \E offset \in 0..MaxInstructions : PatchJump(offset)

SpecChunk == Init /\ [][NextChunk]_vars

(***************************************************************************)
(* compile_hot_spot on the chunks of up to MaxInstructions instructions:    *)
(* a chunk is built, then handed (as the `&Chunk` it is, no longer         *)
(* changing) to compile_hot_spot with a start_pc of it or one past its end.*)
(***************************************************************************)
\* The instructions emitted: each of the four that end a region, and one that
\* does not.
RegionInstructions ==
    {Instr("Jump", 0), Instr("JumpIfFalse", 0), Instr("JumpIfTrue", 0), Instr("Return", 0),
     Instr("Pop", 0)}

\* Chunk::emit while the chunk has not been handed to the JIT compiler.
EmitBuilt(instruction) ==
    /\ jit_result = ""
    /\ Emit(instruction)

CompileBuilt(start_pc) == CompileHotSpot(chunk_built, start_pc)

NextRegion ==
    \/ \E instruction \in RegionInstructions : EmitBuilt(instruction)
    \/ \E start_pc \in 0..MaxInstructions : CompileBuilt(start_pc)

SpecRegion == InitJit /\ [][NextRegion]_vars

(***************************************************************************)
(* Properties                                                              *)
(***************************************************************************)
\* Steps allowed to the reference run RunLoop.
Fuel == 100

GlobalsEq(g1, g2) ==
    /\ DOMAIN g1 = DOMAIN g2
    /\ \A k \in DOMAIN g1 : ValueEq(g1[k], g2[k])

Returned(value) == result.kind = "Ok" /\ ValueEq(result.value, value)

GlobalIs(name, value) == name \in DOMAIN globals /\ ValueEq(globals[name], value)

\* The first execute call on a new runtime has returned.
FirstCallReturned == mode = "idle" /\ calls = 1

\* The dispatch loop is about to execute an instruction of the top frame.
AboutToExecute ==
    /\ mode = "run"
    /\ call_stack # <<>>
    /\ Top(call_stack).pc < Len(Top(call_stack).chunk.instructions)

CurrentPc == Top(call_stack).pc
CurrentInstruction == Top(call_stack).chunk.instructions[CurrentPc + 1]

\* execute_with_jit run to its return on the machine m, in at most fuel iterations.
RECURSIVE RunLoop(_, _)
RunLoop(m, fuel) ==
    LET d == DispatchStep(m)
    IN  IF d.status = "done" \/ fuel = 0 THEN d ELSE RunLoop(d.m, fuel - 1)

\* What execute returns for Sources[i] on a runtime with globals g whose call
\* stack is empty (one that no earlier call left a frame on) and whose maps
\* iterate in the orders given.
FreshExecuteWith(g, orders, i) ==
    IF front_end(Sources[i]).err # "" THEN ErrResult(front_end(Sources[i]).err)
    ELSE RunLoop([globals |-> g, stack |-> <<>>,
                  call_stack |-> <<CallFrame(front_end(Sources[i]).chunk)>>,
                  printed |-> <<>>, hash_order |-> orders], Fuel).result

\* The same on this runtime: its maps iterate as they have so far.
FreshExecute(g, i) == FreshExecuteWith(g, hash_order, i)

\* C1: a program that reaches `return e` makes execute return the value of e:
\* `return 2 + 3` gives Number(5), `return 8 / 2` gives Number(4),
\* `return 2 * 3 + 1` gives Number(7).
C1_ReturnYieldsValue ==
    FirstCallReturned =>
        /\ source = Src("return 2 + 3") => Returned(Number(5))
        /\ source = Src("return 8 / 2") => Returned(Number(4))
        /\ source = Src("return 2 * 3 + 1") => Returned(Number(7))

\* C2: once an execute call has failed, a later execute call of a program that is
\* valid (it succeeds on a runtime with the same globals that never failed)
\* succeeds too, with the same value.
C2_SessionContinuesAfterError ==
    (mode = "idle" /\ calls >= 2 /\ FreshExecute(globals0, source).kind = "Ok") =>
        Returned(FreshExecute(globals0, source).value)

\* C3: `if c then A else B end` runs A when c is truthy and B (or nothing) when c
\* is falsy, and execute does not fail because of the branch.
C3_IfRunsOneBranch ==
    FirstCallReturned =>
        /\ source = Src(SrcIf.text) => Returned(String("greater"))
        /\ source = Src("if true then z = 1 end") =>
                result.kind = "Ok" /\ GlobalIs("z", Number(1))
        /\ source = Src("if false then z = 1 else z = 2 end") =>
                result.kind = "Ok" /\ GlobalIs("z", Number(2))

\* C4: `while c do body end` runs body once per truthy evaluation of c and goes on
\* after the loop the first time c is falsy; the sum of 1..5 by a while loop is 15.
C4_WhileLoopRuns ==
    FirstCallReturned =>
        /\ source = Src(SrcWhile.text) => Returned(Number(15))
        /\ source = Src("n = 0\nwhile n < 2 do n = n + 1 end") =>
                result.kind = "Ok" /\ GlobalIs("n", Number(2))
        /\ source = Src("while false do w = 1 end\nw = 3") =>
                result.kind = "Ok" /\ GlobalIs("w", Number(3))

\* C5: `for i = a, b do body end` runs body for i = a, ..., b and not at all when
\* a > b; the sum of i for i = 1, 5 is 15.
C5_ForLoopRuns ==
    FirstCallReturned =>
        /\ source = Src(SrcFor.text) => Returned(Number(15))
        /\ source = Src("t = 0\nfor i = 1, 3 do t = t + i end") =>
                result.kind = "Ok" /\ GlobalIs("t", Number(6))
        /\ source = Src("for i = 2, 1 do w = i end\nw = 4") =>
                result.kind = "Ok" /\ GlobalIs("w", Number(4))

\* The instruction about to execute is a Div or Mod whose divisor is zero.
ZeroDivisor ==
    /\ AboutToExecute
    /\ CurrentInstruction.op \in {"Div", "Mod"}
    /\ Len(stack) >= 2
    /\ to_number(stack[Len(stack) - 1])[1]
    /\ to_number(Top(stack))[1]
    /\ IsZero(to_number(Top(stack))[2])

IsNonFinite(val) == val.t = "number" /\ ~IsFinite(val.v)

\* C6: a Div or Mod with a zero divisor makes execute return an error, and it
\* pushes nothing: no infinity and no NaN reaches the stack or the result.
C6_ZeroDivisorIsError ==
    [][ZeroDivisor =>
        /\ mode' = "idle"
        /\ result'.kind = "RuntimeError"
        /\ result'.err \in {"Division by zero", "Modulo by zero"}
        /\ Len(stack') = Len(stack) - 2
        /\ \A i \in 1..Len(stack') : ~IsNonFinite(stack'[i])]_vars

\* `return 5 / 0` has returned its error.
C6_Witness ==
    /\ mode = "idle"
    /\ source = Src("return 5 / 0")
    /\ result.kind = "RuntimeError"
    /\ result.err = "Division by zero"

\* C7: a global assigned by a successful execute call is visible to the later
\* calls: after `x = 42`, `return x` yields the value of x and `return x + 8` that
\* value plus 8.
C7_GlobalsVisibleToLaterCalls ==
    (mode = "idle" /\ result.kind = "Ok" /\ "x" \in DOMAIN globals0) =>
        /\ source = Src("return x") => ValueEq(result.value, globals0["x"])
        /\ (source = Src("return x + 8") /\ globals0["x"].t = "number") =>
                ValueEq(result.value, NumberQ(FAdd(globals0["x"].v, <<8, 1>>)))

\* C8: the step on which an execute call fails leaves the globals as the
\* instructions before it made them: nothing is rolled back, nothing else changes.
C8_FailureKeepsGlobals ==
    [][(mode = "run" /\ mode' = "idle" /\ result'.kind = "RuntimeError") =>
            GlobalsEq(globals', globals)]_vars

\* `x = 7` ran, then `y = x / 0` failed: x stays assigned.
C8_Witness ==
    /\ mode = "idle"
    /\ source = Src("x = 7\ny = x / 0")
    /\ result.kind = "RuntimeError"
    /\ "x" \notin DOMAIN globals0
    /\ GlobalIs("x", Number(7))

\* C9: each time the interpreter is about to execute the instruction at a program
\* counter, the runtime's execution counter of that program counter grows by one.
C9_ExecutionIsCounted ==
    [][AboutToExecute =>
        ExecutionCount(jit_compiler', CurrentPc) =
            ExecutionCount(jit_compiler, CurrentPc) + 1]_vars

\* C10: once a program counter has been executed as many times as the threshold,
\* its status is no longer COLD (here pc 0 of `return 2 * 3 + 1`, which every
\* call executes once).
C10_HotPcLeavesCold ==
    (mode = "idle" /\ calls >= jit_compiler.threshold) =>
        Status(jit_compiler, 0) \in {"READY TO COMPILE", "COMPILED"}

\* C11: compile_hot_spot never leaves more regions mapped than the hot-spot map
\* has HotSpots (a second compilation of a start_pc maps no second region while
\* the first is still mapped), and every HotSpot's entry point is a mapped region
\* that still holds the HotSpot's machine code.
C11_NoDoubleAllocation ==
    /\ Cardinality(DOMAIN mappings) <= Cardinality(DOMAIN jitc.hot_spots)
    /\ \A pc \in DOMAIN jitc.hot_spots :
            /\ jitc.hot_spots[pc].compiled_code.entry_point \in DOMAIN mappings
            /\ mappings[jitc.hot_spots[pc].compiled_code.entry_point].code =
                    jitc.hot_spots[pc].compiled_code.machine_code

\* C12: every one of the consecutive execute calls of `return 2 * 3 + 1` on one
\* runtime yields Number(7), whatever counts the profiler has accumulated.
C12_HotRunsYieldSeven ==
    (mode = "idle" /\ calls >= 1) => Returned(Number(7))

\* Result<Value, LuaError> equality (LuaError derives PartialEq).
ResultEq(r1, r2) ==
    /\ r1.kind = r2.kind
    /\ r1.err = r2.err
    /\ ValueEq(r1.value, r2.value)

\* The iteration orders another new runtime can have for the maps whose order this
\* runtime has shown.
OtherRuntimeOrders ==
    {f \in [DOMAIN hash_order -> UNION {Orders(K) : K \in DOMAIN hash_order}] :
        \A K \in DOMAIN hash_order : f[K] \in Orders(K)}

\* C13: the first execute call of a source on a new runtime returns what the first
\* call of the same source returns on any other new runtime: Ok with an equal
\* value or Err with an equal error.
C13_FreshRuntimesAgree ==
    FirstCallReturned =>
        \A orders \in OtherRuntimeOrders :
            ResultEq(result, FreshExecuteWith(add_builtins, orders, source))

\* The statements of the kinds given in stmts, those in bodies and branches included.
RECURSIVE CountKinds(_, _)
CountKinds(stmts, kinds) ==
    IF stmts = <<>> THEN 0
    ELSE (IF Head(stmts).k \in kinds THEN 1 ELSE 0)
         + (IF Head(stmts).k = "If"
            THEN CountKinds(Head(stmts).then_branch, kinds)
                    + CountKinds(Head(stmts).else_branch, kinds)
            ELSE IF Head(stmts).k \in {"While", "For"}
            THEN CountKinds(Head(stmts).body, kinds)
            ELSE 0)
         + CountKinds(Tail(stmts), kinds)

\* The indices of the instructions with the operation op.
IndicesOf(instructions, op) ==
    {e \in 0..(Len(instructions) - 1) : instructions[e + 1].op = op}

ForwardJumps(instructions) ==
    {j \in IndicesOf(instructions, "Jump") : instructions[j + 1].x > j}

BackwardJumps(instructions) ==
    {j \in IndicesOf(instructions, "Jump") : instructions[j + 1].x < j}

\* C14: in every chunk the compiler returns, each jump target is an index of the
\* instruction sequence; each conditional exit (JumpIfFalse) goes forward, to just
\* after the Jump that closes its construct; that Jump is either an if's end-skip,
\* going forward past the exit's target, or a loop-back, going backward to before
\* the condition; and there is one forward Jump per if and one backward Jump per
\* while or for of the program, at any nesting depth.
C14_JumpsWellFormed ==
    (compile_result.done /\ compile_result.err = "") =>
        /\ \A e \in 0..(Len(compile_result.chunk.instructions) - 1) :
                IsJump(compile_result.chunk.instructions[e + 1]) =>
                    compile_result.chunk.instructions[e + 1].x
                        \in 0..(Len(compile_result.chunk.instructions) - 1)
        /\ \A e \in IndicesOf(compile_result.chunk.instructions, "JumpIfFalse") :
                /\ compile_result.chunk.instructions[e + 1].x > e + 1
                /\ (compile_result.chunk.instructions[e + 1].x - 1)
                        \in ForwardJumps(compile_result.chunk.instructions)
                                \cup BackwardJumps(compile_result.chunk.instructions)
                /\ \/ compile_result.chunk.instructions[
                            compile_result.chunk.instructions[e + 1].x].x
                        >= compile_result.chunk.instructions[e + 1].x
                   \/ compile_result.chunk.instructions[
                            compile_result.chunk.instructions[e + 1].x].x < e
        /\ IndicesOf(compile_result.chunk.instructions, "JumpIfTrue") = {}
        /\ Cardinality(IndicesOf(compile_result.chunk.instructions, "JumpIfFalse")) =
                CountKinds(input_program, {"If", "While", "For"})
        /\ Cardinality(ForwardJumps(compile_result.chunk.instructions)) =
                CountKinds(input_program, {"If"})
        /\ Cardinality(BackwardJumps(compile_result.chunk.instructions)) =
                CountKinds(input_program, {"While", "For"})

\* A chunk was returned for a while in an if in a for, or another nesting of
\* three constructs with a loop and an if among them.
C14_Witness ==
    /\ compile_result.done
    /\ compile_result.err = ""
    /\ CountKinds(input_program, {"If"}) >= 1
    /\ CountKinds(input_program, {"While", "For"}) >= 2
    /\ BackwardJumps(compile_result.chunk.instructions) # {}
    /\ ForwardJumps(compile_result.chunk.instructions) # {}

\* C15: execute of a source the parser rejects (`return 5 +`) returns an error of
\* the parse kind, and of a source the lexer rejects an error of the lexical
\* kind: neither is a RuntimeError.
C15_FrontEndErrorKinds ==
    (mode = "idle" /\ calls >= 1) =>
        /\ Sources[source].parse_err # "" => result.kind = "ParseError"
        /\ Sources[source].lex_err # "" => result.kind = "LexError"

\* The instruction about to execute is a Call whose callee and arguments are on
\* the stack.
AboutToCall ==
    /\ AboutToExecute
    /\ CurrentInstruction.op = "Call"
    /\ Len(stack) >= CurrentInstruction.x + 1

\* The arguments of that Call, first argument first, and the stack below them.
CallArgs == SubSeq(stack, Len(stack) - CurrentInstruction.x, Len(stack) - 1)
BelowCall == SubSeq(stack, 1, Len(stack) - CurrentInstruction.x - 1)

\* execute has returned, on this step, the runtime error msg, with nothing pushed.
FailsWith(msg) ==
    /\ mode' = "idle"
    /\ result' = ErrResult(msg)
    /\ stack' = BelowCall

AboutToIndex ==
    /\ AboutToExecute
    /\ CurrentInstruction.op = "GetIndex"
    /\ Len(stack) >= 2

\* What GetIndex is to push for the operands table and key.
Indexed(table, key) ==
    IF table.t = "table"
    THEN IF to_string(key) \in DOMAIN table.v THEN table.v[to_string(key)] ELSE Nil
    ELSE IF get_function(to_string(table) \o "." \o to_string(key))[1]
    THEN Function(get_function(to_string(table) \o "." \o to_string(key))[2])
    ELSE Nil

\* C17: a GetIndex with two operands on the stack never fails; it pops the two and
\* pushes one value: the table's entry for the stringified key, or Nil, when the
\* first operand is a table, and otherwise Function(id) when the registry has
\* "<first operand>.<key>" and Nil when it has not.
C17_GetIndexNeverFails ==
    [][AboutToIndex =>
        /\ mode' = "run"
        /\ result' = Pending
        /\ Len(stack') = Len(stack) - 1
        /\ \A i \in 1..(Len(stack) - 2) : ValueEq(stack'[i], stack[i])
        /\ ValueEq(Top(stack'), Indexed(stack[Len(stack) - 1], Top(stack)))]_vars

\* `r = ("math").abs` has returned: the String "math" is no table, the registry
\* has "math.abs", and r is that function.
C17_Witness ==
    /\ mode = "idle"
    /\ input_program = <<Assign("r", Field(Lit(String("math")), "abs"))>>
    /\ result.kind = "Ok"
    /\ "r" \in DOMAIN globals
    /\ globals["r"].t = "function"
    /\ get_function("math.abs")[1]
    /\ globals["r"].v = get_function("math.abs")[2]

\* C18: within one execute call the locals have slots of their own and a load
\* gives the value last stored to the slot, whatever was stored to other slots and
\* to globals: `local x = 10 local y = 20 return x + y` yields Number(30), and
\* after `local a = 1 local b = 2 b = 3 g = 4 la = a lb = b` la is 1 and lb is 3.
C18_LocalsKeepTheirValues ==
    FirstCallReturned =>
        /\ source = Src("local x = 10\nlocal y = 20\nreturn x + y") =>
                Returned(Number(30))
        /\ source = Src("local a = 1\nlocal b = 2\nb = 3\ng = 4\nla = a\nlb = b") =>
                /\ result.kind = "Ok"
                /\ GlobalIs("la", Number(1))
                /\ GlobalIs("lb", Number(3))
                /\ GlobalIs("g", Number(4))
                /\ "a" \notin DOMAIN globals
                /\ "b" \notin DOMAIN globals

\* Nil and Boolean(false), and nothing else.
Falsy(val) == val.t = "nil" \/ (val.t = "boolean" /\ ~val.v)

\* The instruction about to execute is op and it has its n operands.
AboutTo(op, n) ==
    /\ AboutToExecute
    /\ CurrentInstruction.op = op
    /\ Len(stack) >= n

\* The step popped n operands and pushed Boolean(b).
PushedBoolean(n, b) ==
    /\ mode' = "run"
    /\ Len(stack') = Len(stack) - n + 1
    /\ Top(stack').t = "boolean"
    /\ Top(stack').v = b

\* C19: only Nil and Boolean(false) are falsy (Number 0 and the empty string are
\* truthy); And, Or and Not push the Boolean computed from the truthiness of their
\* operands: `true and false` is Boolean(false), `true or false` is Boolean(true),
\* `not true` is Boolean(false).
C19_LogicalOnTruthiness ==
    [][/\ AboutTo("And", 2) =>
            PushedBoolean(2, ~Falsy(stack[Len(stack) - 1]) /\ ~Falsy(Top(stack)))
       /\ AboutTo("Or", 2) =>
            PushedBoolean(2, ~Falsy(stack[Len(stack) - 1]) \/ ~Falsy(Top(stack)))
       /\ AboutTo("Not", 1) => PushedBoolean(1, Falsy(Top(stack)))
       /\ (AboutTo("And", 2) /\ ValueEq(stack[Len(stack) - 1], Boolean(TRUE))
                /\ ValueEq(Top(stack), Boolean(FALSE))) =>
            ValueEq(Top(stack'), Boolean(FALSE))
       /\ (AboutTo("Or", 2) /\ ValueEq(stack[Len(stack) - 1], Boolean(TRUE))
                /\ ValueEq(Top(stack), Boolean(FALSE))) =>
            ValueEq(Top(stack'), Boolean(TRUE))
       /\ (AboutTo("Not", 1) /\ ValueEq(Top(stack), Boolean(TRUE))) =>
            ValueEq(Top(stack'), Boolean(FALSE))]_vars

\* `r = 0 and ""` has returned and r is Boolean(true): both operands are truthy.
C19_Witness ==
    /\ mode = "idle"
    /\ input_program = <<Assign("r", Bin(N(0), "And", Lit(String(""))))>>
    /\ result.kind = "Ok"
    /\ GlobalIs("r", Boolean(TRUE))

\* The step is an execute call of a source whose program has a statement the
\* compiler has no arm for (break, a function declaration), or of the source with
\* an index expression, which the parser does not accept.
ExecutesUnsupported ==
    /\ calls' = calls + 1
    /\ \/ CountKinds(Sources[source'].program, {"Break", "Function"}) >= 1
       \/ source' = Src("x = 1\ny = t[1]")

\* C20: execute of a program with a node the compiler does not recognise returns
\* an error and nothing of the program runs: no call frame is pushed, the dispatch
\* loop is not entered and the globals stay as they were, also when supported
\* statements come before the unsupported one.
C20_UnsupportedRunsNothing ==
    [][ExecutesUnsupported =>
        /\ mode' = "idle"
        /\ result'.kind = "RuntimeError"
        /\ result'.err \in {"Statement not implemented", "Expression not implemented",
                            "Unexpected token: LeftBracket"}
        /\ call_stack' = call_stack
        /\ GlobalsEq(globals', globals)
        /\ printed' = <<>>]_vars

\* `x = 1 break` has returned "Statement not implemented" on a new runtime; x is
\* not assigned and there is no call frame.
C20_Witness ==
    /\ FirstCallReturned
    /\ source = Src("x = 1\nbreak")
    /\ result = ErrResult("Statement not implemented")
    /\ "x" \notin DOMAIN globals
    /\ call_stack = <<>>

\* The program counter the top frame is to have after a successful step from the
\* current state.
NextPc ==
    CASE CurrentInstruction.op = "Jump" -> CurrentInstruction.x
      [] CurrentInstruction.op = "JumpIfFalse" ->
            IF Falsy(Top(stack)) THEN CurrentInstruction.x ELSE CurrentPc + 1
      [] CurrentInstruction.op = "JumpIfTrue" ->
            IF ~Falsy(Top(stack)) THEN CurrentInstruction.x ELSE CurrentPc + 1
      [] OTHER -> CurrentPc + 1

\* C21: a successful step of the dispatch loop leaves the top frame at pc + 1
\* after a non-jump instruction and at t after Jump(t); JumpIfFalse(t) and
\* JumpIfTrue(t) pop one condition and leave the frame at t when the condition
\* selects the branch and at pc + 1 when it does not.
C21_StepAdvancesPc ==
    [][(AboutToExecute /\ mode' = "run") =>
        /\ Len(call_stack') = Len(call_stack)
        /\ Top(call_stack').pc = NextPc
        /\ CurrentInstruction.op \in {"JumpIfFalse", "JumpIfTrue"} =>
                stack' = Pop1(stack)]_vars

\* C22: whenever execute has returned, with Ok or with Err, the call-frame stack
\* is empty, and during an execute call it holds the one frame of the chunk being
\* executed.
C22_FrameStackEmptyOnReturn ==
    /\ mode = "idle" => call_stack = <<>>
    /\ mode = "run" => Len(call_stack) = 1

\* The top frame's pc is past the end of its chunk.
FramePastEnd ==
    /\ mode = "run"
    /\ call_stack # <<>>
    /\ Top(call_stack).pc >= Len(Top(call_stack).chunk.instructions)

\* C23: when the top frame's pc is past the end of its chunk the frame is popped;
\* when that empties the frame stack, execute returns Ok with the top of the
\* operand stack, or Nil when the operand stack is empty; and every execute call
\* that enters the dispatch loop starts with an empty operand stack.
C23_CompletionAndStackClear ==
    [][/\ FramePastEnd =>
            /\ call_stack' = Pop1(call_stack)
            /\ IF Len(call_stack) = 1
               THEN /\ mode' = "idle"
                    /\ result'.kind = "Ok"
                    /\ ValueEq(result'.value, IF stack = <<>> THEN Nil ELSE Top(stack))
               ELSE /\ mode' = "run"
                    /\ stack' = stack
       /\ (calls' = calls + 1 /\ mode' = "run") => stack' = <<>>]_vars

\* An execute call has completed with Ok, its frame is popped, and a value of the
\* call is left on the operand stack for the next call to clear.
C23_Witness ==
    /\ mode = "idle"
    /\ calls >= 1
    /\ result.kind = "Ok"
    /\ call_stack = <<>>
    /\ stack # <<>>

\* The instruction patch_jump is called on is a jump.
PatchesJump ==
    /\ chunk_call'.arg < Len(chunk_built.instructions)
    /\ IsJump(chunk_built.instructions[chunk_call'.arg + 1])

\* C24: patch_jump(index) on a Jump, JumpIfFalse or JumpIfTrue sets the target of
\* that instruction to the instruction count of the chunk and changes nothing
\* else: not its kind, no other instruction, not the constants, not the line
\* table. On any other instruction it panics and the chunk is not rewritten.
C24_PatchJumpEffect ==
    [][(chunk_call'.op = "patch_jump" /\ ~chunk_call.panicked) =>
        IF PatchesJump
        THEN /\ ~chunk_call'.panicked
             /\ Len(chunk_built'.instructions) = Len(chunk_built.instructions)
             /\ \A i \in 1..Len(chunk_built.instructions) :
                    IF i = chunk_call'.arg + 1
                    THEN /\ chunk_built'.instructions[i].op = chunk_built.instructions[i].op
                         /\ chunk_built'.instructions[i].x = Len(chunk_built.instructions)
                    ELSE chunk_built'.instructions[i] = chunk_built.instructions[i]
             /\ chunk_built'.constants = chunk_built.constants
             /\ chunk_built'.line_numbers = chunk_built.line_numbers
        ELSE /\ chunk_call'.panicked
             /\ chunk_built' = chunk_built]_vars

\* The jump at index 1 of a chunk of three instructions with a constant was
\* patched: its target is 3.
C24_Witness ==
    /\ chunk_call = [op |-> "patch_jump", arg |-> 1, panicked |-> FALSE]
    /\ Len(chunk_built.instructions) = 3
    /\ chunk_built.constants # <<>>
    /\ IsJump(chunk_built.instructions[2])
    /\ chunk_built.instructions[2].x = 3
    /\ ~IsJump(chunk_built.instructions[1])

\* The names the statements declare, in the order of their declaration: a local
\* statement declares its names last to first, a for its variable and two more
\* locals, then what its body declares; bodies and branches count wherever they are.
RECURSIVE Declared(_)
Declared(stmts) ==
    IF stmts = <<>> THEN <<>>
    ELSE (CASE Head(stmts).k = "LocalAssignment" ->
                [i \in 1..Len(Head(stmts).names) |->
                    Head(stmts).names[Len(Head(stmts).names) + 1 - i]]
            [] Head(stmts).k = "If" ->
                Declared(Head(stmts).then_branch) \o Declared(Head(stmts).else_branch)
            [] Head(stmts).k = "While" -> Declared(Head(stmts).body)
            [] Head(stmts).k = "For" ->
                <<Head(stmts).var, Head(stmts).var \o "_end", Head(stmts).var \o "_step">>
                    \o Declared(Head(stmts).body)
            [] OTHER -> <<>>)
         \o Declared(Tail(stmts))

\* The last statement of the program compiled: the read or write of a name.
Probe == input_program[Len(input_program)]
ProbeReads == Probe.target = "g"
ProbeName == IF ProbeReads THEN Probe.value.name ELSE Probe.target

\* The instruction compiled for the access of the probed name: the first of the
\* read's two instructions, the second of the write's, before the final
\* LoadConst Nil; Return.
ProbeInstruction ==
    compile_result.chunk.instructions[
        Len(compile_result.chunk.instructions) - (IF ProbeReads THEN 3 ELSE 2)]

\* The declarations of the probed name among those before the probe.
ProbeDeclarations ==
    {i \in 1..Len(Declared(input_program)) : Declared(input_program)[i] = ProbeName}

\* C25: a name resolves to the slot of its most recent declaration, wherever that
\* was (in the body of an if, a while or a for too), so a read or an assignment
\* after a redeclaration gets LoadLocal/StoreLocal of the newest slot; a name never
\* declared gets LoadGlobal/StoreGlobal.
C25_NewestDeclarationWins ==
    (compile_result.done /\ compile_result.err = "" /\ input_program \in DeclPrograms) =>
        IF ProbeDeclarations = {}
        THEN /\ ProbeInstruction.op = (IF ProbeReads THEN "LoadGlobal" ELSE "StoreGlobal")
             /\ ProbeInstruction.x = ProbeName
        ELSE /\ ProbeInstruction.op = (IF ProbeReads THEN "LoadLocal" ELSE "StoreLocal")
             /\ \A i \in ProbeDeclarations : i - 1 <= ProbeInstruction.x
             /\ (ProbeInstruction.x + 1) \in ProbeDeclarations

\* `local a = 1  if x < 3 then local a = 3 end  a = 9` is compiled: the
\* assignment stores to slot 1, the a declared in the if.
C25_Witness ==
    /\ compile_result.done
    /\ input_program = <<Local(<<"a">>, <<N(1)>>),
                         IfThen(Cond, <<Local(<<"a">>, <<N(3)>>)>>),
                         Assign("a", N(9))>>
    /\ ProbeInstruction.op = "StoreLocal"
    /\ ProbeInstruction.x = 1

\* What an operand of Atoms, or an argument of ArgLists, evaluates to on a new
\* runtime: a literal to its value, a global to its entry of the builtins or Nil,
\* math.abs to the function the math table holds, -42 to the negated literal.
Evaluated(e) ==
    CASE e.k = "Literal" -> e.value
      [] e.k = "Identifier" ->
            IF e.name \in DOMAIN add_builtins THEN add_builtins[e.name] ELSE Nil
      [] e.k = "FieldAccess" -> add_builtins[e.object.name].v[e.field]
      [] e.k = "Unary" -> NumberQ(FNeg(e.operand.value.v))

\* The expression the program assigns.
Assigned == input_program[1].value

\* The program assigns a call whose arguments and callee are operands.
CallsOnOperands ==
    /\ Assigned.k = "Call"
    /\ \A i \in 1..Len(Assigned.args) : Assigned.args[i].k # "Call"

\* C26: when Call(n) is about to execute in `r = f(a1, ..., an)` the stack holds
\* the values of a1..an, first argument lowest, and the value of the callee on
\* top of them; a Call(n) that returns leaves the stack below its n arguments
\* untouched and one result on top of it (the depth before the first argument
\* plus one), and the function has had the arguments in source order:
\* print("hi", 1) writes "hi", a tab, "1"; in `r = 1 + math.abs(-42)` the stack
\* goes from <<1, -42, abs>> to <<1, 42>>; print(math.abs(-42), 1) writes "42",
\* a tab, "1".
C26_CallArgumentsInOrder ==
    [][/\ (AboutToCall /\ CallsOnOperands) =>
            /\ Len(stack) = Len(Assigned.args) + 1
            /\ \A i \in 1..Len(Assigned.args) :
                    ValueEq(stack[i], Evaluated(Assigned.args[i]))
            /\ ValueEq(Top(stack), Evaluated(Assigned.callee))
       /\ (AboutToCall /\ mode' = "run") =>
            /\ Len(stack') = Len(stack) - CurrentInstruction.x - 1 + 1
            /\ SubSeq(stack', 1, Len(stack') - 1) = BelowCall
       /\ (AboutToCall /\ CallsOnOperands /\ Assigned.callee.k = "Identifier"
                /\ Assigned.callee.name = "print" /\ Len(Assigned.args) = 2) =>
            printed' = <<"hi\t1">>
       /\ (AboutToCall /\ Assigned.k = "Binary" /\ Assigned.operator = "Add"
                /\ Assigned.right.k = "Call") =>
            /\ Len(stack) = 3
            /\ ValueEq(stack[1], Number(1))
            /\ ValueEq(stack[2], Number(-42))
            /\ ValueEq(stack[3], Evaluated(Field(Id("math"), "abs")))
            /\ Len(stack') = 2
            /\ ValueEq(stack'[1], Number(1))
            /\ ValueEq(stack'[2], Number(42))
       /\ (AboutToCall /\ Assigned.k = "Call" /\ ~CallsOnOperands
                /\ CurrentInstruction.x = 2) =>
            /\ printed' = <<"42\t1">>
            /\ Len(stack') = 1]_vars

\* `r = print(math.abs(-42), 1)` has returned: the line is "42", a tab, "1", and
\* r is the Nil that print pushed.
C26_Witness ==
    /\ mode = "idle"
    /\ Assigned.k = "Call"
    /\ ~CallsOnOperands
    /\ result.kind = "Ok"
    /\ printed = <<"42\t1">>
    /\ GlobalIs("r", Nil)

\* The program assigns `a and b` or `a or b` whose right operand is a call.
LogicalOnCall ==
    /\ Assigned.k = "Binary"
    /\ Assigned.operator \in {"And", "Or"}
    /\ Assigned.right.k = "Call"

\* C27: when the And or Or of `r = a and b` or `r = a or b` is about to execute
\* the stack holds the value of a and, on top of it, the value of b, whatever a
\* is; a right operand print("hi") has written its line by then, also in
\* `false and print("hi")` and `true or print("hi")`; a right operand foo(), foo
\* undefined, makes execute return the call error, also in `false and foo()` and
\* `true or foo()`, and r is not assigned.
C27_BothOperandsEvaluated ==
    /\ (AboutToExecute /\ CurrentInstruction.op \in {"And", "Or"}) =>
            /\ Len(stack) = 2
            /\ ValueEq(stack[1], Evaluated(Assigned.left))
            /\ IF Assigned.right.k = "Call"
               THEN ValueEq(stack[2], Nil) /\ printed = <<"hi">>
               ELSE ValueEq(stack[2], Evaluated(Assigned.right))
    /\ (mode = "idle" /\ calls = 1 /\ LogicalOnCall) =>
            IF Assigned.right.callee.name = "print"
            THEN /\ result.kind = "Ok"
                 /\ printed = <<"hi">>
                 /\ GlobalIs("r", Boolean(Assigned.operator = "Or"
                                            /\ Assigned.left.value.v))
            ELSE /\ result = ErrResult("Cannot call non-function value: Nil")
                 /\ printed = <<>>
                 /\ "r" \notin DOMAIN globals

\* `r = true or foo()` has returned the error of the call of foo.
C27_Witness ==
    /\ mode = "idle"
    /\ LogicalOnCall
    /\ Assigned.operator = "Or"
    /\ Assigned.left.value.v
    /\ Assigned.right.callee.name = "foo"
    /\ result = ErrResult("Cannot call non-function value: Nil")

Comparisons == {"Less", "LessEqual", "Greater", "GreaterEqual"}

\* A comparison is about to execute on two operands.
AboutToCompare ==
    /\ AboutToExecute
    /\ CurrentInstruction.op \in Comparisons
    /\ Len(stack) >= 2

\* C28: a comparison with an operand that is not a Number (a String, Boolean,
\* Nil, Table or Function) makes execute return the "Cannot compare non-numeric
\* values" error and pushes no Boolean.
C28_ComparisonNeedsNumbers ==
    [][(AboutToCompare /\ (stack[Len(stack) - 1].t # "number" \/ Top(stack).t # "number")) =>
            /\ mode' = "idle"
            /\ result' = ErrResult("Cannot compare non-numeric values")
            /\ stack' = Pop2(stack)]_vars

\* The instructions a hot region ends at.
EndsRegion(instruction) == instruction.op \in {"Jump", "JumpIfFalse", "JumpIfTrue", "Return"}

\* The step inserted the HotSpot of start_pc (every HotSpot inserted has a new
\* entry point).
Compiles(start_pc) ==
    /\ start_pc \in DOMAIN jitc'.hot_spots
    /\ \/ start_pc \notin DOMAIN jitc.hot_spots
       \/ jitc'.hot_spots[start_pc].compiled_code.entry_point
            # jitc.hot_spots[start_pc].compiled_code.entry_point

\* C29: the HotSpot compiled for a start_pc inside the chunk has start_pc <
\* end_pc <= the chunk's length; no instruction of [start_pc, end_pc) other than
\* the last is a Jump, JumpIfFalse, JumpIfTrue or Return; and the last is one,
\* unless the region reaches the end of the chunk.
C29_RegionEndsAtFirstJump ==
    [][\A start_pc \in 0..(Len(chunk_built.instructions) - 1) :
        Compiles(start_pc) =>
            LET end_pc == jitc'.hot_spots[start_pc].end_pc
            IN  /\ jitc'.hot_spots[start_pc].start_pc = start_pc
                /\ start_pc < end_pc
                /\ end_pc <= Len(chunk_built.instructions)
                /\ \A i \in start_pc..(end_pc - 2) :
                        ~EndsRegion(chunk_built.instructions[i + 1])
                /\ \/ EndsRegion(chunk_built.instructions[end_pc])
                   \/ end_pc = Len(chunk_built.instructions)]_vars

\* A HotSpot compiled at start_pc 1 of a chunk whose first instruction is a jump:
\* its region ends at a jump or return after start_pc, past one that ends no region.
C29_Witness ==
    /\ Len(chunk_built.instructions) = 3
    /\ EndsRegion(chunk_built.instructions[1])
    /\ ~EndsRegion(chunk_built.instructions[2])
    /\ EndsRegion(chunk_built.instructions[3])
    /\ 1 \in DOMAIN jitc.hot_spots
    /\ jitc.hot_spots[1].end_pc = 3

\* C30: every program counter that has a HotSpot has an execution count of at
\* least the threshold (100), and so has the execution_count the HotSpot recorded.
C30_HotSpotsAreHot ==
    \A pc \in DOMAIN jitc.hot_spots :
        /\ ExecutionCount(jitc, pc) >= Threshold
        /\ jitc.hot_spots[pc].execution_count >= Threshold

\* C31: a HotSpot that has compiled code keeps its machine code, its entry point
\* and its end_pc through every later operation, another compile_hot_spot of its
\* start_pc included.
C31_PayloadWriteOnce ==
    [][\A pc \in DOMAIN jitc.hot_spots :
            /\ pc \in DOMAIN jitc'.hot_spots
            /\ jitc'.hot_spots[pc].compiled_code.machine_code
                    = jitc.hot_spots[pc].compiled_code.machine_code
            /\ jitc'.hot_spots[pc].compiled_code.entry_point
                    = jitc.hot_spots[pc].compiled_code.entry_point
            /\ jitc'.hot_spots[pc].end_pc = jitc.hot_spots[pc].end_pc]_vars

\* The step is the return of an Err by compile_hot_spot on x86_64 unix: after a
\* failed mprotect, or after a failed mmap.
ReturnsAllocError ==
    \/ alloc_call.phase = "copied" /\ alloc_call'.phase = "idle"
    \/ /\ alloc_call.phase = "idle"
       /\ jit_result' # jit_result
       /\ jit_result' = "Failed to allocate memory"

\* C32: when mmap or mprotect fails, compile_hot_spot returns the error at once:
\* the hot spots and the counters are what they were, the region the call had
\* mapped is no longer mapped, and every other region is as it was.
C32_FailedCompileLeavesNothing ==
    [][ReturnsAllocError =>
            /\ jit_result' \in {"Failed to allocate memory", "Failed to make memory executable"}
            /\ jitc' = jitc
            /\ alloc_call.addr \notin DOMAIN mappings'
            /\ DOMAIN mappings' = DOMAIN mappings \ {alloc_call.addr}
            /\ \A a \in DOMAIN mappings' : mappings'[a] = mappings[a]]_vars

\* compile_hot_spot has failed at mprotect on a compiler that has a HotSpot and a
\* count: the one region mapped is the HotSpot's.
C32_Witness ==
    /\ alloc_call.phase = "idle"
    /\ jit_result = "Failed to make memory executable"
    /\ DOMAIN jitc.hot_spots = {0}
    /\ ExecutionCount(jitc, 0) = 1
    /\ DOMAIN mappings = {jitc.hot_spots[0].compiled_code.entry_point}

\* size is the smallest multiple of 4096 that is at least the length of code.
SmallestPages(size, code) ==
    /\ size % 4096 = 0
    /\ size >= Len(code)
    /\ size - 4096 < Len(code)

\* What holds of the regions in every state: a region is read-write or
\* read-execute, never both writable and executable; a read-execute region holds
\* all of its code; the region of the call in progress has the size of the code
\* that is to be copied, a finished region the size of the code it holds.
RegionsWellFormed ==
    \A a \in DOMAIN mappings :
        /\ mappings[a].prot \in {"READ|WRITE", "READ|EXEC"}
        /\ IF alloc_call.phase # "idle" /\ a = alloc_call.addr
           THEN /\ SmallestPages(mappings[a].size, AllocCode)
                /\ mappings[a].prot = "READ|EXEC" => mappings[a].code = AllocCode
                /\ mappings[a].prot = "READ|EXEC" <=> alloc_call.phase = "protected"
                /\ mappings[a].code = AllocCode <=> alloc_call.phase \in {"copied", "protected"}
           ELSE /\ mappings[a].prot = "READ|EXEC"
                /\ Len(mappings[a].code) > 0
                /\ SmallestPages(mappings[a].size, mappings[a].code)

\* What holds of every step: a region that appears is read-write and holds no
\* code; a region that stays keeps its size, never goes from read-execute back to
\* read-write and never loses or changes code it holds; a HotSpot is inserted with
\* the address of a region that was read-execute, with the HotSpot's code in it,
\* before the insert.
RegionsOnlyAdvance ==
    /\ \A a \in DOMAIN mappings' \ DOMAIN mappings :
            mappings'[a].prot = "READ|WRITE" /\ mappings'[a].code = <<>>
    /\ \A a \in DOMAIN mappings' \cap DOMAIN mappings :
            /\ mappings'[a].size = mappings[a].size
            /\ mappings[a].prot = "READ|EXEC" => mappings'[a].prot = "READ|EXEC"
            /\ mappings[a].code # <<>> => mappings'[a].code = mappings[a].code
            /\ mappings[a].prot = "READ|EXEC" => mappings'[a].code = mappings[a].code
    /\ \A pc \in DOMAIN jitc'.hot_spots :
            Compiles(pc) =>
                /\ jitc'.hot_spots[pc].compiled_code.entry_point \in DOMAIN mappings
                /\ mappings[jitc'.hot_spots[pc].compiled_code.entry_point].prot = "READ|EXEC"
                /\ mappings[jitc'.hot_spots[pc].compiled_code.entry_point].code
                        = jitc'.hot_spots[pc].compiled_code.machine_code

\* C33: an executable region is reserved read-write, then has the code copied,
\* then becomes read-execute, in that order and never back; it is never writable
\* and executable at once; its size is the smallest multiple of 4096 that is at
\* least the length of the code; and a HotSpot gets its entry point only after the
\* region is read-execute.
C33_RegionLifeCycle == []RegionsWellFormed /\ [][RegionsOnlyAdvance]_vars

\* The region of the call in progress is read-execute with all its code in it,
\* one page, and no HotSpot points to it yet.
C33_Witness ==
    /\ alloc_call.phase = "protected"
    /\ mappings[alloc_call.addr].prot = "READ|EXEC"
    /\ mappings[alloc_call.addr].code = AllocCode
    /\ mappings[alloc_call.addr].size = 4096
    /\ \A pc \in DOMAIN jitc.hot_spots :
            jitc.hot_spots[pc].compiled_code.entry_point # alloc_call.addr

\* C34: in every state, each entry_point held by a HotSpot of the map is the
\* address of a region that is mapped, read-execute, and holds the HotSpot's
\* machine code.
C34_EntryPointsStayMapped ==
    \A pc \in DOMAIN jitc.hot_spots :
        /\ jitc.hot_spots[pc].compiled_code.entry_point \in DOMAIN mappings
        /\ mappings[jitc.hot_spots[pc].compiled_code.entry_point].prot = "READ|EXEC"
        /\ mappings[jitc.hot_spots[pc].compiled_code.entry_point].code
                = jitc.hot_spots[pc].compiled_code.machine_code

\* Two HotSpots, each with its own region, after the calls have returned.
C34_Witness ==
    /\ alloc_call.phase = "idle"
    /\ DOMAIN jitc.hot_spots = {0, 3}
    /\ jitc.hot_spots[0].compiled_code.entry_point # jitc.hot_spots[3].compiled_code.entry_point
    /\ Cardinality(DOMAIN mappings) = 2

\* C40: every HotSpot in the map describes a non-empty region inside the chunk it
\* was compiled from: start_pc < end_pc <= the number of instructions.
C40_RegionNonEmptyInsideChunk ==
    \A pc \in DOMAIN jitc.hot_spots :
        /\ jitc.hot_spots[pc].start_pc < jitc.hot_spots[pc].end_pc
        /\ jitc.hot_spots[pc].end_pc <= Len(chunk_built.instructions)

\* The instructions of bytecode.rs that execute_instruction has no arm for.
NoArm == {"Dup", "MakeFunction", "NewTable", "SetIndex", "ForPrep", "ForLoop"}

\* The chunk compile returned for the program.
Compiled == compile_result.chunk.instructions

\* C35: no instruction of the chunk of an accepted program is one of Dup,
\* MakeFunction, NewTable, SetIndex, ForPrep, ForLoop; execute_instruction has an
\* arm for every instruction of the chunk (it does not answer "Unimplemented
\* instruction", whatever the stack); and execute does not return that error.
C35_EmittedIsImplemented ==
    (compile_result.done /\ compile_result.err = "") =>
        /\ \A i \in 1..Len(Compiled) :
                /\ Compiled[i].op \notin NoArm
                /\ execute_instruction(Machine, Compiled[i]).err
                        # "Unimplemented instruction: " \o Compiled[i].op
        /\ \A op \in NoArm \cup {Compiled[i].op : i \in 1..Len(Compiled)} :
                result.err # "Unimplemented instruction: " \o op

\* The for loop with a step and a body has been compiled and its call has
\* returned: its chunk has the loads, stores, comparison and jumps of the loop.
C35_Witness ==
    /\ mode = "idle"
    /\ calls = 1
    /\ input_program = <<ForStep("i", N(1), N(5), N(2), <<Assign("x", Id("i"))>>)>>
    /\ compile_result.err = ""
    /\ {"LoadConst", "StoreLocal", "LoadLocal", "LessEqual", "JumpIfFalse", "StoreGlobal",
        "Add", "Jump", "Return"} = {Compiled[i].op : i \in 1..Len(Compiled)}

\* The program counters at which a statement of the program ends, returns
\* excepted, and the one at which the first begins: the chunk of the first j
\* statements without the two instructions compile appends.
StatementBoundaries ==
    {Len(compile(SubSeq(input_program, 1, j)).chunk.instructions) - 2 :
        j \in {0} \cup {n \in 1..Len(input_program) : input_program[n].k # "Return"}}

\* What `local n1, ..., nk = v1, ..., vm` is to bind to the i-th name.
BoundTo(stmt, i) == IF i <= Len(stmt.values) THEN stmt.values[i].value ELSE Nil

\* C36: the operand stack is empty whenever execution is at the boundary of a
\* statement; and after `local n1, ..., nk = v1, ..., vm` the name ni holds vi for
\* i <= m and Nil beyond, for every k and m (here read back through `ra = a` and
\* `rb = b`, b an undefined global when it is not declared).
C36_StatementsLeaveStackEmpty ==
    /\ (AboutToExecute /\ CurrentPc \in StatementBoundaries) => stack = <<>>
    /\ (mode = "idle" /\ calls = 1 /\ input_program[1].k = "LocalAssignment") =>
            /\ result.kind = "Ok"
            /\ GlobalIs("ra", BoundTo(input_program[1], 1))
            /\ GlobalIs("rb", IF Len(input_program[1].names) >= 2
                              THEN BoundTo(input_program[1], 2) ELSE Nil)

\* The local slots the compiler gives to the end bound and the step of the loop
\* `for i = ...` that is the first statement: the two after the slot of i.
HiddenSlots == {1, 2}

\* The instructions of a chunk that load or store one of those slots.
HiddenAccesses(instructions) ==
    {i \in 1..Len(instructions) :
        /\ instructions[i].op \in {"LoadLocal", "StoreLocal"}
        /\ instructions[i].x \in HiddenSlots}

\* The loop of the program with its body taken out, and nothing after it.
BareLoop == <<[input_program[1] EXCEPT !.body = <<>>]>>

\* C37: in the chunk of a program that begins with a for loop, the only
\* instructions that load or store the slots of the end bound and the step are
\* the four the compiler emits for the loop itself (as many as in the chunk of the
\* loop with an empty body): nothing the body or a later statement names, i_end
\* and i_step included, reaches them; `y = i_end` and `z = i_step` after the loop
\* read globals that are not defined.
C37_LoopLocalsHidden ==
    (compile_result.done /\ compile_result.err = "" /\ input_program[1].k = "For") =>
        /\ Cardinality(HiddenAccesses(Compiled))
                = Cardinality(HiddenAccesses(compile(BareLoop).chunk.instructions))
        /\ (mode = "idle" /\ Len(input_program) = 3 /\ result.kind = "Ok") =>
                GlobalIs("y", Nil) /\ GlobalIs("z", Nil)

(***************************************************************************)
(* Termination of the dispatch loop.  The loop of execute_with_jit takes   *)
(* one step per iteration and returns from inside it; a call that is in    *)
(* the loop always has a next step.  Termination is therefore stated with  *)
(* a variant: the pair (pc of the frame, depth of the value stack), which  *)
(* every iteration that stays in the loop moves forward in the order "pc   *)
(* up, or pc kept and stack down", inside the chunk.                       *)
(***************************************************************************)
\* The one execute call has returned, with Ok or with Err.
Terminated == mode = "idle" /\ calls = 1

\* The call is in the loop, on the one frame of the program's chunk.
InLoop ==
    /\ mode = "run"
    /\ Len(call_stack) = 1
    /\ Top(call_stack).chunk = compile_result.chunk
    /\ Top(call_stack).pc \in 0..Len(compile_result.chunk.instructions)

\* The call has returned for good: a result is set and no frame is executing.
HasResult == Terminated => result.kind \in {"Ok", "RuntimeError"}

\* An iteration that stays in the loop moves the variant forward.
Advances ==
    (mode = "run" /\ mode' = "run") =>
        \/ Top(call_stack').pc > Top(call_stack).pc
        \/ /\ Top(call_stack').pc = Top(call_stack).pc
           /\ Len(stack') < Len(stack)

IsForProgram == input_program \in ForPrograms

IsLoopFree == CountKinds(input_program, {"While", "For"}) = 0

\* The stack holds at most one value per instruction the pc has passed.
StackWithinPc == mode = "run" => Len(stack) <= Top(call_stack).pc

\* C39: execute on a program with no while and no for statement returns, with
\* Ok or with Err, after a number of iterations bounded by the chunk: in the
\* loop the call is on the one frame with its pc inside the chunk and a stack
\* no deeper than the pc, each iteration that does not return moves the pc up
\* or keeps it and shrinks the stack, so a chunk of n instructions allows at
\* most (n + 1) * (n + 1) iterations, and the call ends with a result.
C39_LoopFreeTerminates ==
    /\ [](IsLoopFree => (mode = "run" => InLoop) /\ StackWithinPc /\ HasResult)
    /\ [][IsLoopFree => Advances]_vars

\* An if with a true condition and an else branch, then a return, has returned.
C39_Witness ==
    /\ Terminated
    /\ IsLoopFree
    /\ input_program[1].k = "If"
    /\ input_program[1].condition = Lit(Boolean(TRUE))
    /\ input_program[1].else_branch # <<>>
    /\ result.kind \in {"Ok", "RuntimeError"}

====
